---- MODULE Spec2Model ----
(***************************************************************************)
(* ZnPOS: the MongoStorage data-access layer (mongo-storage.ts) and the    *)
(* routes that drive it (routes.ts).                                       *)
(*                                                                         *)
(* Collections are sets of documents; the counters collection is a         *)
(* function from namespace to seq, 0 standing for "no counter document".   *)
(* Storage methods whose awaits matter to a property are split at their    *)
(* storage operations (createTransaction, POST /api/employees,             *)
(* toggleEmployeeStatus); the others are one action per call.              *)
(***************************************************************************)
EXTENDS Integers, Sequences, FiniteSets, TLC

VARIABLES
    counters,           \* counters collection: namespace -> seq
    businesses,         \* businesses collection
    users,              \* users collection
    categories,         \* categories collection
    products,           \* products collection
    customers,          \* customers collection
    transactions,       \* transactions collection
    transactionItems,   \* transactionItems collection
    sessions,           \* express-session store: the principals of live sessions
    alloc,              \* callers of getNextId in flight
    tx,                 \* createTransaction calls in flight
    emp,                \* POST /api/employees requests in flight
    tog,                \* toggleEmployeeStatus calls in flight
    auth,               \* POST /api/login requests in flight
    conn,               \* mongodb.ts: the module's client and db, and the connectToMongoDB calls in flight
    issued,             \* history: namespace -> ids returned by getNextId, in order
    createdUnder,       \* history: <<namespace, id, businessId>> of every document at its insert
    last                \* history: the last completed call, its arguments and outcome

store == <<counters, businesses, users, categories, products, customers, transactions, transactionItems>>
procs == <<alloc, tx, emp, tog, auth, conn>>
hist == <<issued, createdUnder, last>>
vars == <<counters, businesses, users, categories, products, customers, transactions, transactionItems, sessions, alloc, tx, emp, tog, auth, conn, issued, createdUnder, last>>

----------------------------------------------------------------------------
(* Bounds of the model *)

\* getNextId calls explored by the allocator specification
MaxIssued == 4

\* ids allocated (documents created or burned) in the tenant specification
MaxEntities == 2

\* program constant: the employee cap of POST /api/employees
MaxEmployees == 10

----------------------------------------------------------------------------
(* Value domains *)

Namespaces == {"users", "businesses", "categories", "products", "customers", "transactions", "transactionItems"}

Tenants == {1, 2}

Callers == {1, 2}

Handlers == {1, 2}

\* the absent value of an optional field / a findOne that matched nothing
None == 0

NoCall == [op |-> "none", bid |-> None, id |-> None, res |-> "none", val |-> {}]

----------------------------------------------------------------------------
(* ID allocator: MongoStorage.getNextId *)

\* an upsert that only creates the counter document: { $setOnInsert: { seq: 1 } }
findOneAndUpdateSetOnInsert(c, ns) == [c EXCEPT ![ns] = IF @ = 0 THEN 1 ELSE @]

\* one sequence for all: the increment reaches every counter document
findOneAndUpdateIncAll(c, ns) == [n \in DOMAIN c |-> c[n] + 1]

\* the $inc upsert on the counter document of a namespace
findOneAndUpdateInc(c, ns) == [c EXCEPT ![ns] = @ + 1]

\* a stale variant: returnDocument 'before' hands back the document as it was
getNextIdBefore(c, ns) == IF c[ns] # 0 THEN c[ns] ELSE 1

\* the value returned: the seq of the document after the increment, or 1 when falsy
getNextId(c, ns) == IF findOneAndUpdateInc(c, ns)[ns] # 0 THEN findOneAndUpdateInc(c, ns)[ns] ELSE 1

\* the history of ids handed out, extended by one call
Issue(ns) == issued' = [issued EXCEPT ![ns] = Append(@, getNextId(counters, ns))]

TotalIssued == Len(issued["users"]) + Len(issued["businesses"]) + Len(issued["categories"]) + Len(issued["products"]) + Len(issued["customers"]) + Len(issued["transactions"]) + Len(issued["transactionItems"])

----------------------------------------------------------------------------
(* Documents *)

\* JS object spread {...a, ...b} and Mongo's $set: the fields of b override those of a
Merge(a, b) == [k \in (DOMAIN a) \cup (DOMAIN b) |-> IF k \in DOMAIN b THEN b[k] ELSE a[k]]

\* a projection that leaves nothing out
WithoutNothing(r, k) == r

\* a projection { k: 0 } / a rest-destructuring that leaves field k out
Without(r, k) == [f \in (DOMAIN r) \ {k} |-> r[f]]

\* updateOne(filter, {$set: updates}) on a collection, given the documents matching the filter
updateOne(coll, matching, updates) == IF matching = {} THEN coll ELSE (coll \ {CHOOSE d \in matching : TRUE}) \cup {Merge(CHOOSE d \in matching : TRUE, updates)}

\* a "hash" that stores the string as it is
HashIdentity(password) == password

\* bcrypt.hash(password, 12): a string that is not the one hashed; hashed counts
\* how many times bcrypt was applied to text (0: the text itself)
Hash(password) == [text |-> password.text, hashed |-> password.hashed + 1]

\* bcrypt.compare(password, stored): stored is a hash of exactly the string supplied
bcryptCompare(password, stored) == stored = Hash(password)

AdminPermissions == [pos |-> TRUE, inventory |-> TRUE, customers |-> TRUE, reports |-> TRUE, employees |-> TRUE, settings |-> TRUE]

EmployeePermissions == [pos |-> TRUE, inventory |-> FALSE, customers |-> FALSE, reports |-> FALSE, employees |-> FALSE, settings |-> FALSE]

\* createUser's default permission flags by role
defaultPermissions(role) == IF role = "admin" THEN AdminPermissions ELSE EmployeePermissions

----------------------------------------------------------------------------
(* Tenant-scoped reads: pure queries over the collections *)

getProducts(businessId) == {p \in products : p.businessId = businessId /\ p.isActive = TRUE}

getProduct(id, businessId) == {p \in products : p.id = id /\ p.businessId = businessId}

\* a comparison that leaves the boundary out: $lt
getLowStockProductsStrict(businessId) == {p \in products : p.businessId = businessId /\ p.isActive = TRUE /\ p.stock < p.lowStockThreshold}

\* find({ businessId, isActive: true, $expr: { $lte: ['$stock', '$lowStockThreshold'] } })
getLowStockProducts(businessId) == {p \in products : p.businessId = businessId /\ p.isActive = TRUE /\ p.stock <= p.lowStockThreshold}

getCustomers(businessId) == {c \in customers : c.businessId = businessId}

getCustomer(id, businessId) == {c \in customers : c.id = id /\ c.businessId = businessId}

getCategories(businessId) == {c \in categories : c.businessId = businessId}

getEmployees(businessId) == {Without(u, "password") : u \in {e \in users : e.businessId = businessId /\ e.role # "admin"}}

getEmployeeCount(businessId) == Cardinality({e \in users : e.businessId = businessId /\ e.role # "admin"})

----------------------------------------------------------------------------
(* Initial state: an empty database, no session, nothing in flight *)

InitStore ==
    /\ counters = [ns \in Namespaces |-> 0]
    /\ businesses = {}
    /\ users = {}
    /\ categories = {}
    /\ products = {}
    /\ customers = {}
    /\ transactions = {}
    /\ transactionItems = {}

IdleAlloc == [pc |-> "idle", ns |-> "users", ret |-> None]

IdleToggle == [pc |-> "idle", id |-> None, bid |-> None, found |-> {}]

IdleEmp == [pc |-> "idle", bid |-> None, count |-> None]

IdleAuth == [pc |-> "idle", username |-> "", password |-> [text |-> "", hashed |-> 0], found |-> {}]

\* mongodb.ts as loaded: let client, let db, no client made, no call under way
IdleConn == [client |-> None, db |-> {}, made |-> 0, failed |-> 0, call |-> [p \in Callers |-> [pc |-> "idle", ret |-> {}]]]

\* a createTransaction call not yet made
IdleTx == [pc |-> "idle", transaction |-> [businessId |-> None], items |-> <<>>, id |-> None, itemIds |-> <<>>, hadTransactions |-> {}, hadItems |-> {}, at |-> "idle"]

Init ==
    /\ InitStore
    /\ sessions = {}
    /\ alloc = [p \in Callers |-> IdleAlloc]
    /\ tx = [h \in Handlers |-> IdleTx]
    /\ emp = [h \in Handlers |-> IdleEmp]
    /\ tog = [h \in Handlers |-> IdleToggle]
    /\ auth = [h \in Handlers |-> IdleAuth]
    /\ conn = IdleConn
    /\ issued = [ns \in Namespaces |-> <<>>]
    /\ createdUnder = {}
    /\ last = NoCall

----------------------------------------------------------------------------
(* Concurrent callers of getNextId *)

\* a caller starts getNextId(ns): the findOneAndUpdate is sent to the store
AllocCall(p, ns) ==
    /\ alloc[p].pc = "idle"
    /\ TotalIssued + Cardinality({q \in Callers : alloc[q].pc = "pending"}) < MaxIssued
    /\ alloc' = [alloc EXCEPT ![p] = [pc |-> "pending", ns |-> ns, ret |-> None]]
    /\ UNCHANGED <<store, sessions, tx, emp, tog, auth, conn, hist>>

\* the store executes the findOneAndUpdate as one step; the promise resolves
AllocExec(p) ==
    /\ alloc[p].pc = "pending"
    /\ counters' = findOneAndUpdateInc(counters, alloc[p].ns)
    /\ Issue(alloc[p].ns)
    /\ alloc' = [alloc EXCEPT ![p] = [pc |-> "done", ns |-> alloc[p].ns, ret |-> getNextId(counters, alloc[p].ns)]]
    /\ UNCHANGED <<businesses, users, categories, products, customers, transactions, transactionItems, sessions, tx, emp, tog, auth, conn, createdUnder, last>>

\* the caller consumes the id and may call again
AllocDone(p) ==
    /\ alloc[p].pc = "done"
    /\ alloc' = [alloc EXCEPT ![p] = IdleAlloc]
    /\ UNCHANGED <<store, sessions, tx, emp, tog, auth, conn, hist>>

NextAlloc ==
    \/ \E p \in Callers, ns \in Namespaces : AllocCall(p, ns)
    \/ \E p \in Callers : AllocExec(p)
    \/ \E p \in Callers : AllocDone(p)

SpecAlloc == Init /\ [][NextAlloc]_vars

----------------------------------------------------------------------------
(* Storage writes, one action per call.  A create allocates its id and then
   inserts; ok = FALSE is the insertOne that throws after the id was taken. *)

\* the outcome of a call, as its caller sees it
Returned(op, bid, id, res, val) == last' = [op |-> op, bid |-> bid, id |-> id, res |-> res, val |-> val]

\* getNextId called inside a storage method: the counter moves, the id is recorded
Allocate(ns) == counters' = findOneAndUpdateInc(counters, ns) /\ Issue(ns)

createProduct(product, ok) ==
    /\ Allocate("products")
    /\ createdUnder' = IF ok THEN createdUnder \cup {<<"products", getNextId(counters, "products"), product.businessId>>} ELSE createdUnder
    /\ products' = IF ok THEN products \cup {Merge(product, [id |-> getNextId(counters, "products")])} ELSE products
    /\ Returned("createProduct", product.businessId, getNextId(counters, "products"), IF ok THEN "ok" ELSE "error", IF ok THEN {Merge(product, [id |-> getNextId(counters, "products")])} ELSE {})
    /\ UNCHANGED <<businesses, users, categories, customers, transactions, transactionItems, sessions, procs>>

\* the products matching updateProduct's filter { id, businessId }
matchProduct(id, businessId) == {p \in products : p.id = id /\ p.businessId = businessId}

updateProduct(id, businessId, updates) ==
    /\ products' = updateOne(products, matchProduct(id, businessId), updates)
    /\ Returned("updateProduct", businessId, id, IF getProduct(id, businessId)' = {} THEN "Product not found" ELSE "ok", getProduct(id, businessId)')
    /\ UNCHANGED <<counters, businesses, users, categories, customers, transactions, transactionItems, sessions, procs, issued, createdUnder>>

createCustomer(customer, ok) ==
    /\ Allocate("customers")
    /\ createdUnder' = IF ok THEN createdUnder \cup {<<"customers", getNextId(counters, "customers"), customer.businessId>>} ELSE createdUnder
    /\ customers' = IF ok THEN customers \cup {Merge(customer, [id |-> getNextId(counters, "customers")])} ELSE customers
    /\ Returned("createCustomer", customer.businessId, getNextId(counters, "customers"), IF ok THEN "ok" ELSE "error", IF ok THEN {Merge(customer, [id |-> getNextId(counters, "customers")])} ELSE {})
    /\ UNCHANGED <<businesses, users, categories, products, transactions, transactionItems, sessions, procs>>

\* a filter that forgets the tenant: { id }
matchCustomerAnyTenant(id, businessId) == {c \in customers : c.id = id}

\* the customers matching updateCustomer's filter { id, businessId }
matchCustomer(id, businessId) == {c \in customers : c.id = id /\ c.businessId = businessId}

updateCustomer(id, businessId, updates) ==
    /\ customers' = updateOne(customers, matchCustomer(id, businessId), updates)
    /\ Returned("updateCustomer", businessId, id, IF getCustomer(id, businessId)' = {} THEN "Customer not found" ELSE "ok", getCustomer(id, businessId)')
    /\ UNCHANGED <<counters, businesses, users, categories, products, transactions, transactionItems, sessions, procs, issued, createdUnder>>

createCategory(category, ok) ==
    /\ Allocate("categories")
    /\ createdUnder' = IF ok THEN createdUnder \cup {<<"categories", getNextId(counters, "categories"), category.businessId>>} ELSE createdUnder
    /\ categories' = IF ok THEN categories \cup {Merge(category, [id |-> getNextId(counters, "categories")])} ELSE categories
    /\ Returned("createCategory", category.businessId, getNextId(counters, "categories"), IF ok THEN "ok" ELSE "error", IF ok THEN {Merge(category, [id |-> getNextId(counters, "categories")])} ELSE {})
    /\ UNCHANGED <<businesses, users, products, customers, transactions, transactionItems, sessions, procs>>

\* the document createUser inserts for a payload and an allocated id
newUser(user, id) == Merge(user, [id |-> id, password |-> Hash(user.password), permissions |-> IF "permissions" \in DOMAIN user THEN user.permissions ELSE defaultPermissions(user.role)])

createUser(user, ok) ==
    /\ Allocate("users")
    /\ createdUnder' = IF ok THEN createdUnder \cup {<<"users", getNextId(counters, "users"), user.businessId>>} ELSE createdUnder
    /\ users' = IF ok THEN users \cup {newUser(user, getNextId(counters, "users"))} ELSE users
    /\ Returned("createUser", user.businessId, getNextId(counters, "users"), IF ok THEN "ok" ELSE "error", IF ok THEN {Without(newUser(user, getNextId(counters, "users")), "password")} ELSE {})
    /\ UNCHANGED <<businesses, categories, products, customers, transactions, transactionItems>>

\* a filter that forgets the tenant: { id }
findUserAnyTenant(id, businessId) == {u \in users : u.id = id}

\* the users matching the filter { id, businessId }
findUser(id, businessId) == {u \in users : u.id = id /\ u.businessId = businessId}

updateUserPermissions(id, businessId, permissions) ==
    /\ users' = updateOne(users, findUser(id, businessId), [permissions |-> permissions])
    /\ Returned("updateUserPermissions", businessId, id, IF findUser(id, businessId)' = {} THEN "User not found" ELSE "ok", {Without(u, "password") : u \in findUser(id, businessId)'})
    /\ UNCHANGED <<counters, businesses, categories, products, customers, transactions, transactionItems, sessions, procs, issued, createdUnder>>

\* a delete that also removes the sales the employee rang up
deleteEmployeeCascade(id, businessId) ==
    /\ users' = {u \in users : ~(u.id = id /\ u.businessId = businessId /\ u.role # "admin")}
    /\ transactions' = {t \in transactions : t.userId # id}
    /\ Returned("deleteEmployee", businessId, id, IF \E u \in users : u.id = id /\ u.businessId = businessId /\ u.role # "admin" THEN "true" ELSE "false", {})
    /\ UNCHANGED <<counters, businesses, categories, products, customers, transactionItems, sessions, procs, issued, createdUnder>>

\* a delete that gives the id back: the counter steps down when a user went
deleteEmployeeReleasing(id, businessId) ==
    /\ users' = {u \in users : ~(u.id = id /\ u.businessId = businessId /\ u.role # "admin")}
    /\ counters' = IF users' # users THEN [counters EXCEPT !["users"] = @ - 1] ELSE counters
    /\ Returned("deleteEmployee", businessId, id, IF users' # users THEN "true" ELSE "false", {})
    /\ UNCHANGED <<businesses, categories, products, customers, transactions, transactionItems, sessions, procs, issued, createdUnder>>

\* a filter without the role: { id, businessId }
findEmployeeAnyRole(id, businessId) == {u \in users : u.id = id /\ u.businessId = businessId}

\* the users matching deleteEmployee's filter { id, businessId, role: { $ne: 'admin' } }
findEmployee(id, businessId) == {u \in users : u.id = id /\ u.businessId = businessId /\ u.role # "admin"}

deleteEmployee(id, businessId) ==
    /\ users' = IF findEmployee(id, businessId) = {} THEN users ELSE users \ {CHOOSE u \in findEmployee(id, businessId) : TRUE}
    /\ Returned("deleteEmployee", businessId, id, IF findEmployee(id, businessId) = {} THEN "false" ELSE "true", {})
    /\ UNCHANGED <<counters, businesses, categories, products, customers, transactions, transactionItems, sessions, procs, issued, createdUnder>>

\* toggleEmployeeStatus, first await: findOne({ id, businessId }); a miss throws
toggleRead(h, id, businessId) ==
    /\ tog[h].pc = "idle"
    /\ tog' = [tog EXCEPT ![h] = IF findUser(id, businessId) = {} THEN IdleToggle ELSE [pc |-> "found", id |-> id, bid |-> businessId, found |-> {Without(CHOOSE u \in findUser(id, businessId) : TRUE, "password")}]]
    /\ last' = IF findUser(id, businessId) = {} THEN [op |-> "toggleEmployeeStatus", bid |-> businessId, id |-> id, res |-> "User not found", val |-> {}] ELSE last
    /\ UNCHANGED <<store, sessions, alloc, tx, emp, auth, conn, issued, createdUnder>>

\* toggleEmployeeStatus, second await: updateOne({ id, businessId }, { isActive: !user.isActive })
toggleWrite(h) ==
    /\ tog[h].pc = "found"
    /\ users' = updateOne(users, findUser(tog[h].id, tog[h].bid), [isActive |-> ~(CHOOSE u \in tog[h].found : TRUE).isActive])
    /\ Returned("toggleEmployeeStatus", tog[h].bid, tog[h].id, "ok", {Merge(CHOOSE u \in tog[h].found : TRUE, [isActive |-> ~(CHOOSE u \in tog[h].found : TRUE).isActive])})
    /\ tog' = [tog EXCEPT ![h] = IdleToggle]
    /\ UNCHANGED <<counters, businesses, categories, products, customers, transactions, transactionItems, sessions, alloc, tx, emp, auth, conn, issued, createdUnder>>

----------------------------------------------------------------------------
(* The tenant repository under calls from two tenants *)

\* ids a caller may name: those handed out so far and one that exists nowhere
IdArgs(ns) == 1..(counters[ns] + 1)

PlainPassword == [text |-> "secret", hashed |-> 0]

ProductInputs == {[businessId |-> b, name |-> "item", stock |-> 3, lowStockThreshold |-> 5, isActive |-> TRUE] : b \in Tenants}

ProductUpdates == {[stock |-> 0]} \cup {[businessId |-> b] : b \in Tenants}

CustomerInputs == {[businessId |-> b, firstName |-> "a", loyaltyPoints |-> 0] : b \in Tenants}

CustomerUpdates == {[loyaltyPoints |-> 5]} \cup {[businessId |-> b] : b \in Tenants}

CategoryInputs == {[businessId |-> b, name |-> "c"] : b \in Tenants}

UserInputs == {[businessId |-> b, username |-> "u", email |-> "u@x", password |-> PlainPassword, role |-> "employee", isActive |-> TRUE] : b \in Tenants}

\* The collections are independent (no method above reads one and writes
\* another), so a run works on one of them: no id of another namespace was taken.
Within(ns) == \A other \in Namespaces \ {ns} : counters[other] = 0

\* a create within the run's namespace, while the budget of MaxEntities ids lasts
OnlyNamespace(ns) == TotalIssued < MaxEntities /\ Within(ns)

NextTenant ==
    \/ \E product \in ProductInputs, ok \in BOOLEAN : OnlyNamespace("products") /\ createProduct(product, ok)
    \/ \E id \in IdArgs("products"), b \in Tenants, u \in ProductUpdates : Within("products") /\ updateProduct(id, b, u)
    \/ \E customer \in CustomerInputs, ok \in BOOLEAN : OnlyNamespace("customers") /\ createCustomer(customer, ok)
    \/ \E id \in IdArgs("customers"), b \in Tenants, u \in CustomerUpdates : Within("customers") /\ updateCustomer(id, b, u)
    \/ \E category \in CategoryInputs, ok \in BOOLEAN : OnlyNamespace("categories") /\ createCategory(category, ok)
    \/ \E user \in UserInputs, ok \in BOOLEAN : OnlyNamespace("users") /\ createUser(user, ok) /\ UNCHANGED <<sessions, procs>>
    \/ \E id \in IdArgs("users"), b \in Tenants : Within("users") /\ updateUserPermissions(id, b, AdminPermissions)
    \/ \E id \in IdArgs("users"), b \in Tenants : Within("users") /\ deleteEmployee(id, b)
    \/ \E id \in IdArgs("users"), b \in Tenants : Within("users") /\ toggleRead(1, id, b)
    \/ toggleWrite(1)

SpecTenant == Init /\ [][NextTenant]_vars

----------------------------------------------------------------------------
(* Sessions and route guards *)

\* the principal POST /api/register and login put in req.session.user
sessionUser(u) == [id |-> u.id, businessId |-> u.businessId, username |-> u.username, role |-> u.role, permissions |-> u.permissions]

\* requireAuth: the request carries a live session
requireAuth(s) == s \in sessions

\* user.permissions?.[permission]: the flag is there and true
hasFlag(user, permission) == "permissions" \in DOMAIN user /\ permission \in DOMAIN user.permissions /\ user.permissions[permission] = TRUE

\* requirePermission(permission): an admin, or a principal holding the flag
requirePermission(s, permission) == s \in sessions /\ (s.role = "admin" \/ hasFlag(s, permission))

\* requireAdmin: a session whose principal is an admin
requireAdmin(s) == s \in sessions /\ s.role = "admin"

\* the document createBusiness inserts for a payload and an allocated id
newBusiness(business, id) == Merge(business, [id |-> id])

\* a payload in which the role of the body wins
adminDataBodyWins(user, businessId) == Merge([businessId |-> businessId, role |-> "admin"], user)

\* the payload POST /api/register hands to createUser once the business exists
adminData(user, businessId) == Merge(user, [businessId |-> businessId, role |-> "admin"])

\* POST /api/register: createBusiness, then createUser for its admin, then the
\* session is set; ok = FALSE is the createUser whose insert throws
Register(business, user, ok) ==
    /\ counters' = findOneAndUpdateInc(findOneAndUpdateInc(counters, "businesses"), "users")
    /\ issued' = [issued EXCEPT !["businesses"] = Append(@, getNextId(counters, "businesses")), !["users"] = Append(@, getNextId(counters, "users"))]
    /\ businesses' = businesses \cup {newBusiness(business, getNextId(counters, "businesses"))}
    /\ users' = IF ok THEN users \cup {newUser(adminData(user, getNextId(counters, "businesses")), getNextId(counters, "users"))} ELSE users
    /\ createdUnder' = createdUnder \cup {<<"businesses", getNextId(counters, "businesses"), getNextId(counters, "businesses")>>} \cup (IF ok THEN {<<"users", getNextId(counters, "users"), getNextId(counters, "businesses")>>} ELSE {})
    /\ sessions' = IF ok THEN sessions \cup {sessionUser(newUser(adminData(user, getNextId(counters, "businesses")), getNextId(counters, "users")))} ELSE sessions
    /\ Returned("register", getNextId(counters, "businesses"), getNextId(counters, "users"), IF ok THEN "ok" ELSE "error", IF ok THEN {sessionUser(newUser(adminData(user, getNextId(counters, "businesses")), getNextId(counters, "users")))} ELSE {})
    /\ UNCHANGED <<categories, products, customers, transactions, transactionItems, procs>>

----------------------------------------------------------------------------
(* POST /api/employees: count, compare with the cap, create *)

\* a looser comparison: only a count above the cap is refused
atCapacityStrict(count) == count > MaxEmployees

\* the route's test on the count it read
atCapacity(count) == count >= MaxEmployees

\* the default of insertUserSchema.permissions: every flag false
SchemaPermissions == [pos |-> FALSE, inventory |-> FALSE, customers |-> FALSE, reports |-> FALSE, employees |-> FALSE, settings |-> FALSE]

\* insertUserSchema.parse on valid data: the fields sent, the schema's defaults for those left out
insertUserSchemaParse(data) == Merge([role |-> "employee", isActive |-> TRUE, permissions |-> SchemaPermissions], data)

\* the payload the route hands to createUser: tenant, role and status are the
\* route's, the rest is the body as the schema parsed it
employeeData(body, businessId) == insertUserSchemaParse(Merge(body, [businessId |-> businessId, role |-> "employee", isActive |-> TRUE]))

\* first await: getEmployeeCount for the session's business
empCount(h, s) ==
    /\ requireAdmin(s)
    /\ emp[h].pc = "idle"
    /\ emp' = [emp EXCEPT ![h] = [pc |-> "counted", bid |-> s.businessId, count |-> getEmployeeCount(s.businessId)]]
    /\ UNCHANGED <<store, sessions, alloc, tx, tog, auth, conn, hist>>

\* the continuation: refuse at the cap, otherwise createUser and answer
empRespond(h, body, ok) ==
    /\ emp[h].pc = "counted"
    /\ IF atCapacity(emp[h].count)
       THEN Returned("POST /api/employees", emp[h].bid, None, "Maximum of 10 employees allowed", {}) /\ UNCHANGED <<store, issued, createdUnder>>
       ELSE createUser(employeeData(body, emp[h].bid), ok)
    /\ emp' = [emp EXCEPT ![h] = IdleEmp]
    /\ UNCHANGED <<sessions, alloc, tx, tog, auth, conn>>

BusinessInputs == {[name |-> "shop"]}

RegisterInputs == {[username |-> "owner", email |-> "o@x", password |-> PlainPassword, isActive |-> TRUE]}

EmployeeBodies == {[username |-> "e", email |-> "e@x", password |-> PlainPassword]}

\* One business is followed: the cap is per business and the route reads no
\* other business's users.  Requests that are refused create nothing, so the
\* cap itself bounds the run.
NextCap ==
    \/ \E business \in BusinessInputs, user \in RegisterInputs : businesses = {} /\ Register(business, user, TRUE)
    \/ \E h \in Handlers, s \in sessions : empCount(h, s)
    \/ \E h \in Handlers, body \in EmployeeBodies : empRespond(h, body, TRUE)

SpecCap == Init /\ [][NextCap]_vars

----------------------------------------------------------------------------
(* createTransaction, one action per await *)

\* items a caller may pass, at most this many per call
MaxItems == 2

\* all sequences over S of length at most n
SeqsUpTo(S, n) == UNION {[1..m -> S] : m \in 0..n}

\* the header document: { ...transaction, id }
newTransaction(transaction, id) == Merge(transaction, [id |-> id])

\* an item document in which the caller's own fields win: { id, transactionId, ...item }
newItemCallerWins(item, itemId, id) == Merge([id |-> itemId, transactionId |-> id], item)

\* the item document: { ...item, id: itemId, transactionId: id }
newItem(item, itemId, id) == Merge(item, [id |-> itemId, transactionId |-> id])

\* where a call stands once n item documents are in: back in the loop, or returned
afterInsert(h, n) == IF n = Len(tx[h].items) THEN "done" ELSE "allocItem"

\* the call is made; it stands before its first await
txCall(h, transaction, items) ==
    /\ tx[h].pc = "idle"
    /\ tx' = [tx EXCEPT ![h] = [pc |-> "allocTx", transaction |-> transaction, items |-> items, id |-> None, itemIds |-> <<>>, hadTransactions |-> {t.id : t \in transactions}, hadItems |-> {i.id : i \in transactionItems}, at |-> "idle"]]
    /\ UNCHANGED <<store, sessions, alloc, emp, tog, auth, conn, hist>>

\* const id = await this.getNextId('transactions')
txAllocId(h) ==
    /\ tx[h].pc = "allocTx"
    /\ Allocate("transactions")
    /\ tx' = [tx EXCEPT ![h].pc = "insertHeader", ![h].id = getNextId(counters, "transactions")]
    /\ UNCHANGED <<businesses, users, categories, products, customers, transactions, transactionItems, sessions, alloc, emp, tog, auth, conn, createdUnder, last>>

\* await insertOne(newTransaction); with no items the loop is empty and the call returns
txInsertHeader(h) ==
    /\ tx[h].pc = "insertHeader"
    /\ transactions' = transactions \cup {newTransaction(tx[h].transaction, tx[h].id)}
    /\ createdUnder' = createdUnder \cup {<<"transactions", tx[h].id, tx[h].transaction.businessId>>}
    /\ tx' = [tx EXCEPT ![h].pc = afterInsert(h, 0)]
    /\ last' = IF afterInsert(h, 0) = "done" THEN [op |-> "createTransaction", bid |-> tx[h].transaction.businessId, id |-> tx[h].id, res |-> "ok", val |-> {newTransaction(tx[h].transaction, tx[h].id)}] ELSE last
    /\ UNCHANGED <<counters, businesses, users, categories, products, customers, transactionItems, sessions, alloc, emp, tog, auth, conn, issued>>

\* const itemId = await this.getNextId('transactionItems')
txAllocItemId(h) ==
    /\ tx[h].pc = "allocItem"
    /\ Allocate("transactionItems")
    /\ tx' = [tx EXCEPT ![h].pc = "insertItem", ![h].itemIds = Append(@, getNextId(counters, "transactionItems"))]
    /\ UNCHANGED <<businesses, users, categories, products, customers, transactions, transactionItems, sessions, alloc, emp, tog, auth, conn, createdUnder, last>>

\* an item insert that also takes the sold quantity off the product's stock
txInsertItemTakingStock(h) ==
    /\ tx[h].pc = "insertItem"
    /\ transactionItems' = transactionItems \cup {newItem(tx[h].items[Len(tx[h].itemIds)], tx[h].itemIds[Len(tx[h].itemIds)], tx[h].id)}
    /\ products' = {IF p.id = tx[h].items[Len(tx[h].itemIds)].productId THEN [p EXCEPT !.stock = @ - tx[h].items[Len(tx[h].itemIds)].quantity] ELSE p : p \in products}
    /\ tx' = [tx EXCEPT ![h].pc = afterInsert(h, Len(tx[h].itemIds))]
    /\ last' = IF afterInsert(h, Len(tx[h].itemIds)) = "done" THEN [op |-> "createTransaction", bid |-> tx[h].transaction.businessId, id |-> tx[h].id, res |-> "ok", val |-> {newTransaction(tx[h].transaction, tx[h].id)}] ELSE last
    /\ UNCHANGED <<counters, businesses, users, categories, customers, transactions, sessions, alloc, emp, tog, auth, conn, issued, createdUnder>>

\* await insertOne({ ...item, id: itemId, transactionId: id }); after the last item the call returns
txInsertItem(h) ==
    /\ tx[h].pc = "insertItem"
    /\ transactionItems' = transactionItems \cup {newItem(tx[h].items[Len(tx[h].itemIds)], tx[h].itemIds[Len(tx[h].itemIds)], tx[h].id)}
    /\ tx' = [tx EXCEPT ![h].pc = afterInsert(h, Len(tx[h].itemIds))]
    /\ last' = IF afterInsert(h, Len(tx[h].itemIds)) = "done" THEN [op |-> "createTransaction", bid |-> tx[h].transaction.businessId, id |-> tx[h].id, res |-> "ok", val |-> {newTransaction(tx[h].transaction, tx[h].id)}] ELSE last
    /\ UNCHANGED <<counters, businesses, users, categories, products, customers, transactions, sessions, alloc, emp, tog, auth, conn, issued, createdUnder>>

\* a failure that undoes what the call wrote before it rethrows
txFailRollback(h) ==
    /\ tx[h].pc \in {"allocTx", "insertHeader", "allocItem", "insertItem"}
    /\ transactions' = {t \in transactions : t.id # tx[h].id}
    /\ transactionItems' = {i \in transactionItems : i.transactionId # tx[h].id}
    /\ tx' = [tx EXCEPT ![h].pc = "failed", ![h].at = tx[h].pc]
    /\ Returned("createTransaction", tx[h].transaction.businessId, tx[h].id, "error", {})
    /\ UNCHANGED <<counters, businesses, users, categories, products, customers, sessions, alloc, emp, tog, auth, conn, issued, createdUnder>>

\* the awaited store operation rejects: nothing is caught inside createTransaction,
\* the error leaves the method with whatever was written so far
txFail(h) ==
    /\ tx[h].pc \in {"allocTx", "insertHeader", "allocItem", "insertItem"}
    /\ transactions' = transactions
    /\ transactionItems' = transactionItems
    /\ tx' = [tx EXCEPT ![h].pc = "failed", ![h].at = tx[h].pc]
    /\ Returned("createTransaction", tx[h].transaction.businessId, tx[h].id, "error", {})
    /\ UNCHANGED <<counters, businesses, users, categories, products, customers, sessions, alloc, emp, tog, auth, conn, issued, createdUnder>>

\* the ledger steps read no tenant: both calls are made under the first
TransactionInputs == {[businessId |-> 1, userId |-> 1, total |-> 10, status |-> "completed"]}

\* items as req.body carries them, unvalidated: with or without an id and a transactionId of the caller's
ItemInputs == {[productId |-> 1, quantity |-> 1, total |-> 5], [productId |-> 1, quantity |-> 1, total |-> 5, id |-> 9, transactionId |-> 9]}

\* two calls, each made once, interleaved at every await
NextLedger ==
    \/ \E h \in Handlers, transaction \in TransactionInputs, items \in SeqsUpTo(ItemInputs, MaxItems) : txCall(h, transaction, items)
    \/ \E h \in Handlers : txAllocId(h)
    \/ \E h \in Handlers : txInsertHeader(h)
    \/ \E h \in Handlers : txAllocItemId(h)
    \/ \E h \in Handlers : txInsertItem(h)
    \/ \E h \in Handlers : txFail(h)

SpecLedger == Init /\ [][NextLedger]_vars

----------------------------------------------------------------------------
(* Joined reads: the aggregation pipelines of getTransactions and getTopProducts *)

\* $lookup from users on userId = id
lookupUser(t) == {u \in users : u.id = t.userId}

\* $lookup from customers on customerId = id; a header without customerId joins nothing
lookupCustomer(t) == IF "customerId" \in DOMAIN t THEN {c \in customers : c.id = t.customerId} ELSE {}

\* the $let projection of the joined user
embeddedUser(u) == [id |-> u.id, username |-> u.username, email |-> u.email, role |-> u.role, isActive |-> u.isActive]

\* $match { businessId }, the two lookups, $project
getTransactions(businessId) == {Merge(t, [user |-> {embeddedUser(u) : u \in lookupUser(t)}, customer |-> lookupCustomer(t)]) : t \in {h \in transactions : h.businessId = businessId}}

\* getTopProducts up to its $match: the items whose header is a completed one of the business
soldItems(businessId) == {i \in transactionItems : \E t \in transactions : t.id = i.transactionId /\ t.businessId = businessId /\ t.status = "completed"}

\* $lookup from products on productId = id, $unwind, $group: the products the rows are made of
topProductsJoined(businessId) == {p \in products : \E i \in soldItems(businessId) : i.productId = p.id}

----------------------------------------------------------------------------
(* Two businesses selling through the routes *)

\* customers, products and items per sale in the runs below
MaxJoined == 1

\* POST /api/customers: the tenant is the session's
postCustomer(s, body) == requirePermission(s, "customers") /\ createCustomer(Merge(body, [businessId |-> s.businessId]), TRUE)

\* POST /api/products: the tenant is the session's
postProduct(s, body) == requirePermission(s, "inventory") /\ createProduct(Merge(body, [businessId |-> s.businessId]), TRUE)

\* POST /api/transactions: tenant and cashier are the session's, items go through as sent
\* `TXN-${Date.now()}`: the prefix and the clock's milliseconds
transactionNumber(now) == <<"TXN-", now>>

\* insertTransactionSchema.parse({ ...transaction, businessId, userId, transactionNumber })
transactionData(transaction, s, now) == Merge(transaction, [businessId |-> s.businessId, userId |-> s.id, transactionNumber |-> transactionNumber(now)])

postTransaction(h, s, body, items, now) == requirePermission(s, "pos") /\ txCall(h, transactionData(body, s, now), items)

CustomerBodies == {[firstName |-> "a", loyaltyPoints |-> 0]}

ProductBodies == {[name |-> "item", stock |-> 3, lowStockThreshold |-> 5, isActive |-> TRUE]}

\* a sale without a customer, or naming any customer id handed out so far
TransactionBodies == {[total |-> 10, status |-> "completed"]} \cup {[total |-> 10, status |-> "completed", customerId |-> c] : c \in 1..counters["customers"]}

\* sale lines naming any product id handed out so far
ItemBodies == {[productId |-> p, quantity |-> 1, total |-> 5] : p \in 1..counters["products"]}

NextJoin ==
    \/ \E business \in BusinessInputs, user \in RegisterInputs : counters["businesses"] < Cardinality(Tenants) /\ Register(business, user, TRUE)
    \/ \E s \in sessions, body \in CustomerBodies : counters["customers"] < MaxJoined /\ postCustomer(s, body)
    \/ \E s \in sessions, body \in ProductBodies : counters["products"] < MaxJoined /\ postProduct(s, body)
    \/ \E s \in sessions, body \in TransactionBodies, items \in SeqsUpTo(ItemBodies, MaxJoined), now \in {3} : postTransaction(1, s, body, items, now)
    \/ txAllocId(1)
    \/ txInsertHeader(1)
    \/ txAllocItemId(1)
    \/ txInsertItem(1)

SpecJoin == Init /\ [][NextJoin]_vars

----------------------------------------------------------------------------
(* The ledger beside the other writes of the storage layer *)

\* a run works on the ledger and on one other collection
Beside(ns) == \A other \in Namespaces \ {ns, "transactions", "transactionItems"} : counters[other] = 0

\* a create beside the ledger, while fewer than MaxJoined ids of its namespace were taken
CreateBeside(ns) == counters[ns] < MaxJoined /\ Beside(ns)

NextBooks ==
    \/ \E transaction \in TransactionInputs, items \in SeqsUpTo({i \in ItemInputs : "id" \notin DOMAIN i}, MaxJoined) : txCall(1, transaction, items)
    \/ txAllocId(1)
    \/ txInsertHeader(1)
    \/ txAllocItemId(1)
    \/ txInsertItem(1)
    \/ txFail(1)
    \/ \E product \in ProductInputs : CreateBeside("products") /\ createProduct(product, TRUE)
    \/ \E id \in IdArgs("products"), b \in Tenants, u \in ProductUpdates : Beside("products") /\ updateProduct(id, b, u)
    \/ \E customer \in CustomerInputs : CreateBeside("customers") /\ createCustomer(customer, TRUE)
    \/ \E id \in IdArgs("customers"), b \in Tenants, u \in CustomerUpdates : Beside("customers") /\ updateCustomer(id, b, u)
    \/ \E category \in CategoryInputs : CreateBeside("categories") /\ createCategory(category, TRUE)
    \/ \E user \in UserInputs : CreateBeside("users") /\ createUser(user, TRUE) /\ UNCHANGED <<sessions, procs>>
    \/ \E id \in IdArgs("users"), b \in Tenants : Beside("users") /\ updateUserPermissions(id, b, AdminPermissions)
    \/ \E id \in IdArgs("users"), b \in Tenants : Beside("users") /\ deleteEmployee(id, b)
    \/ \E id \in IdArgs("users"), b \in Tenants : Beside("users") /\ toggleRead(1, id, b)
    \/ toggleWrite(1)

SpecBooks == Init /\ [][NextBooks]_vars

----------------------------------------------------------------------------
(* POST /api/login over getUserByUsernameAndPassword *)

\* username.trim(), on the identifiers a client sends below
trim(username) == CASE username = " old " -> "old" [] username = "u " -> "u" [] OTHER -> username

\* a lookup that forgets the isActive: true of the filter
matchLoginAnyStatus(username) == {u \in users : u.username = trim(username) \/ u.email = trim(username)}

\* the users matching { $or: [{ username }, { email }], isActive: true }
matchLogin(username) == {u \in users : (u.username = trim(username) \/ u.email = trim(username)) /\ u.isActive = TRUE}

\* the legacy fallback: the hash comparison failed and the stored string is the password itself
legacyMatch(password, stored) == ~bcryptCompare(password, stored) /\ stored = password

\* isPasswordValid when the method is about to return
isPasswordValid(password, stored) == bcryptCompare(password, stored) \/ legacyMatch(password, stored)

\* the user object the method returns: the document read, its password the new hash after a migration
returnedUser(u, password) == IF legacyMatch(password, u.password) THEN Merge(u, [password |-> Hash(password)]) ELSE u

\* a lookup whose miss is answered with a message of its own
loginFindTelling(h, username, password) ==
    /\ auth[h].pc = "idle"
    /\ IF matchLogin(username) = {}
       THEN auth' = auth /\ Returned("login", None, None, "Unknown user", {})
       ELSE last' = last /\ \E u \in matchLogin(username) : auth' = [auth EXCEPT ![h] = [pc |-> "found", username |-> username, password |-> password, found |-> {u}]]
    /\ UNCHANGED <<store, sessions, alloc, tx, emp, tog, conn, issued, createdUnder>>

\* first await: findOne; a miss returns undefined and the route answers 401
loginFind(h, username, password) ==
    /\ auth[h].pc = "idle"
    /\ IF matchLogin(username) = {}
       THEN auth' = auth /\ Returned("login", None, None, "Invalid credentials", {})
       ELSE last' = last /\ \E u \in matchLogin(username) : auth' = [auth EXCEPT ![h] = [pc |-> "found", username |-> username, password |-> password, found |-> {u}]]
    /\ UNCHANGED <<store, sessions, alloc, tx, emp, tog, conn, issued, createdUnder>>

\* a fallback that lets the user in but leaves the stored password as it was
loginFinishNoPersist(h) ==
    /\ auth[h].pc = "found"
    /\ users' = users
    /\ \E u \in auth[h].found :
        /\ sessions' = IF isPasswordValid(auth[h].password, u.password) /\ u.isActive THEN sessions \cup {sessionUser(u)} ELSE sessions
        /\ IF isPasswordValid(auth[h].password, u.password) /\ u.isActive
           THEN Returned("login", u.businessId, u.id, "ok", {returnedUser(u, auth[h].password)})
           ELSE Returned("login", None, None, "Invalid credentials", {})
    /\ auth' = [auth EXCEPT ![h] = IdleAuth]
    /\ UNCHANGED <<counters, businesses, categories, products, customers, transactions, transactionItems, alloc, tx, emp, tog, conn, issued, createdUnder>>

\* bcrypt.compare, the legacy fallback with its updateOne({ id }, { $set: { password } }),
\* the return, and the route's answer: the session on success, 401 otherwise
loginFinish(h) ==
    /\ auth[h].pc = "found"
    /\ \E u \in auth[h].found :
        /\ users' = IF legacyMatch(auth[h].password, u.password) THEN updateOne(users, {d \in users : d.id = u.id}, [password |-> Hash(auth[h].password)]) ELSE users
        /\ sessions' = IF isPasswordValid(auth[h].password, u.password) /\ u.isActive THEN sessions \cup {sessionUser(u)} ELSE sessions
        /\ IF isPasswordValid(auth[h].password, u.password) /\ u.isActive
           THEN Returned("login", u.businessId, u.id, "ok", {returnedUser(u, auth[h].password)})
           ELSE Returned("login", None, None, "Invalid credentials", {})
    /\ auth' = [auth EXCEPT ![h] = IdleAuth]
    /\ UNCHANGED <<counters, businesses, categories, products, customers, transactions, transactionItems, alloc, tx, emp, tog, conn, issued, createdUnder>>

\* POST /api/logout: req.session.destroy
logout(s) ==
    /\ s \in sessions
    /\ sessions' = sessions \ {s}
    /\ Returned("logout", s.businessId, s.id, "Logged out", {})
    /\ UNCHANGED <<store, procs, issued, createdUnder>>

\* a record written before passwords were hashed: the password is stored as typed
LegacyUser == [id |-> 1, businessId |-> 1, username |-> "old", email |-> "old@x", password |-> PlainPassword, role |-> "employee", isActive |-> TRUE, permissions |-> EmployeePermissions]

\* a database that already holds the legacy record
InitAuth ==
    /\ counters = [ns \in Namespaces |-> IF ns = "users" THEN 1 ELSE 0]
    /\ users = {LegacyUser}
    /\ businesses = {} /\ categories = {} /\ products = {} /\ customers = {} /\ transactions = {} /\ transactionItems = {}
    /\ sessions = {}
    /\ alloc = [p \in Callers |-> IdleAlloc]
    /\ tx = [h \in Handlers |-> IdleTx]
    /\ emp = [h \in Handlers |-> IdleEmp]
    /\ tog = [h \in Handlers |-> IdleToggle]
    /\ auth = [h \in Handlers |-> IdleAuth]
    /\ conn = IdleConn
    /\ issued = [ns \in Namespaces |-> IF ns = "users" THEN <<1>> ELSE <<>>]
    /\ createdUnder = {<<"users", 1, 1>>}
    /\ last = NoCall

Identifiers == {"old", " old ", "old@x", "u", "nobody"}

WrongPassword == [text |-> "wrong", hashed |-> 0]

\* what a client may type: the password, another one, or the string stored as its hash
PasswordInputs == {PlainPassword, WrongPassword, Hash(PlainPassword)}

\* one login at a time, interleaved at its await with account creation,
\* (de)activation and logout
NextAuth ==
    \/ \E user \in UserInputs : user.businessId = 1 /\ counters["users"] < MaxEntities /\ createUser(user, TRUE) /\ UNCHANGED <<sessions, procs>>
    \/ \E id \in IdArgs("users") : toggleRead(1, id, 1)
    \/ toggleWrite(1)
    \/ \E username \in Identifiers, password \in PasswordInputs : loginFind(1, username, password)
    \/ loginFinish(1)
    \/ \E s \in sessions : logout(s)

SpecAuth == InitAuth /\ [][NextAuth]_vars

----------------------------------------------------------------------------
(* The three gates as the responses they give.  A request presents the
   principal s of its cookie; req.session.user is s while that session lives. *)

Permissions == {"pos", "inventory", "customers", "reports", "employees", "settings"}

\* requireAuth
requireAuthResponse(s) == IF s \notin sessions THEN "401 Unauthorized" ELSE "next"

\* a gate that looks at the flag alone
requirePermissionFlagOnly(s, permission) == IF s \notin sessions THEN "401 Unauthorized" ELSE IF hasFlag(s, permission) THEN "next" ELSE "403 Access denied"

\* requirePermission(permission)
requirePermissionResponse(s, permission) == IF s \notin sessions THEN "401 Unauthorized" ELSE IF s.role = "admin" \/ hasFlag(s, permission) THEN "next" ELSE "403 Access denied"

\* a gate that tests the role before the session
requireAdminRoleFirst(s) == IF s.role # "admin" THEN "403 Admin access required" ELSE IF s \notin sessions THEN "401 Unauthorized" ELSE "next"

\* requireAdmin
requireAdminResponse(s) == IF s \notin sessions THEN "401 Unauthorized" ELSE IF s.role # "admin" THEN "403 Admin access required" ELSE "next"

\* a request reaches a route behind requireAuth
gateAuth(s) ==
    /\ Returned("requireAuth", None, None, requireAuthResponse(s), {[principal |-> s, permission |-> "none"]})
    /\ UNCHANGED <<store, sessions, procs, issued, createdUnder>>

\* a request reaches a route behind requirePermission(permission)
gatePermission(s, permission) ==
    /\ Returned("requirePermission", None, None, requirePermissionResponse(s, permission), {[principal |-> s, permission |-> permission]})
    /\ UNCHANGED <<store, sessions, procs, issued, createdUnder>>

\* a request reaches a route behind requireAdmin
gateAdmin(s) ==
    /\ Returned("requireAdmin", None, None, requireAdminResponse(s), {[principal |-> s, permission |-> "none"]})
    /\ UNCHANGED <<store, sessions, procs, issued, createdUnder>>

\* principals a cookie may stand for: both roles, the flags all false, pos alone,
\* a flags object holding pos only, and no flags object at all
GatePrincipals == {[id |-> 7, businessId |-> 1, username |-> "p", role |-> r, permissions |-> f] : r \in {"admin", "employee"}, f \in {SchemaPermissions, EmployeePermissions, AdminPermissions, [pos |-> TRUE]}} \cup {[id |-> 7, businessId |-> 1, username |-> "p", role |-> r] : r \in {"admin", "employee"}}

\* the database with the legacy record, and one cookie with a live session or none
InitGate ==
    /\ counters = [ns \in Namespaces |-> IF ns = "users" THEN 1 ELSE 0]
    /\ users = {LegacyUser}
    /\ businesses = {} /\ categories = {} /\ products = {} /\ customers = {} /\ transactions = {} /\ transactionItems = {}
    /\ sessions \in {{}} \cup {{s} : s \in GatePrincipals}
    /\ alloc = [p \in Callers |-> IdleAlloc]
    /\ tx = [h \in Handlers |-> IdleTx]
    /\ emp = [h \in Handlers |-> IdleEmp]
    /\ tog = [h \in Handlers |-> IdleToggle]
    /\ auth = [h \in Handlers |-> IdleAuth]
    /\ conn = IdleConn
    /\ issued = [ns \in Namespaces |-> IF ns = "users" THEN <<1>> ELSE <<>>]
    /\ createdUnder = {<<"users", 1, 1>>}
    /\ last = NoCall

\* cookies a request may carry: any principal above, and the legacy user's
Presented == GatePrincipals \cup {sessionUser(LegacyUser)} \cup sessions

NextGate ==
    \/ \E s \in Presented : gateAuth(s)
    \/ \E s \in Presented, permission \in Permissions : gatePermission(s, permission)
    \/ \E s \in Presented : gateAdmin(s)
    \/ \E s \in sessions : logout(s)
    \/ \E password \in {PlainPassword, WrongPassword} : loginFind(1, "old", password)
    \/ loginFinish(1)
    \/ \E business \in BusinessInputs, user \in RegisterInputs : businesses = {} /\ Register(business, user, TRUE)

SpecGate == InitGate /\ [][NextGate]_vars

----------------------------------------------------------------------------
(* The gated routes: middleware first, the handler only after next() *)

\* the middleware pair requireAuth, requirePermission(permission) in front of a handler
chain(s, permission) == IF requireAuthResponse(s) # "next" THEN requireAuthResponse(s) ELSE requirePermissionResponse(s, permission)

\* a route whose handler runs whatever the middleware answered
GatedAfter(route, response, handler) == handler

\* app.METHOD(path, ...gates, handler): a gate that does not call next() has
\* answered the request, and the handler never runs
Gated(route, response, handler) ==
    IF response = "next"
    THEN handler
    ELSE Returned(route, None, None, response, {}) /\ UNCHANGED <<store, sessions, procs, issued, createdUnder>>

\* a payload in which what the body says about the tenant wins
productDataBodyWins(body, businessId) == Merge([businessId |-> businessId], body)

\* insertProductSchema.parse({ ...req.body, businessId: req.session.user.businessId })
productData(body, businessId) == Merge(body, [businessId |-> businessId])

\* insertCustomerSchema.parse({ ...req.body, businessId: req.session.user.businessId })
customerData(body, businessId) == Merge(body, [businessId |-> businessId])

\* BSON has no undefined: the driver writes an undefined value as null
Null == "null"

\* the fields PUT /api/settings/business takes out of the body
BusinessFields == {"name", "email", "phone", "address", "taxRate", "currency", "timezone", "receiptFooter"}

\* const { name, ... } = req.body; const updates = { name, ... }: a field the
\* body leaves out is undefined in updates, and is written as such
settingsUpdates(body) == [k \in BusinessFields |-> IF k \in DOMAIN body THEN body[k] ELSE Null]

\* getBusiness / the filter { id } of updateBusiness
getBusiness(id) == {b \in businesses : b.id = id}

\* updateBusiness: findOneAndUpdate({ id }, { $set: updates }, { returnDocument: 'after' })
updateBusiness(id, updates) ==
    /\ businesses' = updateOne(businesses, getBusiness(id), updates)
    /\ Returned("updateBusiness", id, id, IF getBusiness(id) = {} THEN "Business not found" ELSE "ok", getBusiness(id)')
    /\ UNCHANGED <<counters, users, categories, products, customers, transactions, transactionItems, sessions, procs, issued, createdUnder>>

\* GET /api/products, the handler: the list is the answer
listProducts(businessId) ==
    /\ Returned("getProducts", businessId, None, "ok", getProducts(businessId))
    /\ UNCHANGED <<store, sessions, procs, issued, createdUnder>>

routeGetProducts(s) == Gated("GET /api/products", chain(s, "inventory"), listProducts(s.businessId))

routePostProduct(s, body, ok) == Gated("POST /api/products", chain(s, "inventory"), createProduct(productData(body, s.businessId), ok))

routePutProduct(s, id, body) == Gated("PUT /api/products/:id", chain(s, "inventory"), updateProduct(id, s.businessId, body))

routePostCustomer(s, body, ok) == Gated("POST /api/customers", chain(s, "customers"), createCustomer(customerData(body, s.businessId), ok))

routePostTransaction(h, s, body, items, now) == Gated("POST /api/transactions", chain(s, "pos"), txCall(h, transactionData(body, s, now), items))

routePostEmployee(h, s) == Gated("POST /api/employees", requireAdminResponse(s), empCount(h, s))

routePutPermissions(s, id, permissions) == Gated("PUT /api/employees/:id/permissions", requireAdminResponse(s), updateUserPermissions(id, s.businessId, permissions))

routePutStatus(h, s, id) == Gated("PUT /api/employees/:id/status", requireAdminResponse(s), toggleRead(h, id, s.businessId))

routeDeleteEmployee(s, id) == Gated("DELETE /api/employees/:id", requireAdminResponse(s), deleteEmployee(id, s.businessId))

routePutSettings(s, body) == Gated("PUT /api/settings/business", chain(s, "settings"), updateBusiness(s.businessId, settingsUpdates(body)))

\* the shop the routes are called on: its business, its owner and one employee
ShopBusiness == [id |-> 1, name |-> "shop", email |-> "s@x", phone |-> "1", address |-> "a", taxRate |-> "8", currency |-> "USD", timezone |-> "UTC", receiptFooter |-> "bye"]

ShopOwner == [id |-> 1, businessId |-> 1, username |-> "owner", email |-> "o@x", password |-> Hash(PlainPassword), role |-> "admin", isActive |-> TRUE, permissions |-> AdminPermissions]

ShopEmployee == [id |-> 2, businessId |-> 1, username |-> "e", email |-> "e@x", password |-> Hash(PlainPassword), role |-> "employee", isActive |-> TRUE, permissions |-> EmployeePermissions]

\* the cookies in circulation: the owner's and the employee's
ShopPrincipals == {sessionUser(ShopOwner), sessionUser(ShopEmployee)}

\* after registration and one hire; which of the two is logged in is open
InitRoutes ==
    /\ counters = [ns \in Namespaces |-> CASE ns = "users" -> 2 [] ns = "businesses" -> 1 [] OTHER -> 0]
    /\ businesses = {ShopBusiness}
    /\ users = {ShopOwner, ShopEmployee}
    /\ categories = {} /\ products = {} /\ customers = {} /\ transactions = {} /\ transactionItems = {}
    /\ sessions \in SUBSET ShopPrincipals
    /\ alloc = [p \in Callers |-> IdleAlloc]
    /\ tx = [h \in Handlers |-> IdleTx]
    /\ emp = [h \in Handlers |-> IdleEmp]
    /\ tog = [h \in Handlers |-> IdleToggle]
    /\ auth = [h \in Handlers |-> IdleAuth]
    /\ conn = IdleConn
    /\ issued = [ns \in Namespaces |-> CASE ns = "users" -> <<1, 2>> [] ns = "businesses" -> <<1>> [] OTHER -> <<>>]
    /\ createdUnder = {<<"businesses", 1, 1>>, <<"users", 1, 1>>, <<"users", 2, 1>>}
    /\ last = NoCall

\* bodies that name another shop, and a role
RouteProductBodies == {Merge(body, [businessId |-> 2]) : body \in ProductBodies}

RouteCustomerBodies == {Merge(body, [businessId |-> 2]) : body \in CustomerBodies}

RouteEmployeeBodies == {Merge(body, [businessId |-> 2, role |-> "admin"]) : body \in EmployeeBodies}

SettingsBodies == {[name |-> "store"], [taxRate |-> "9", receiptFooter |-> "thanks"]}

\* no id was handed out since the shop was set up, except in the namespace ns
AloneIn(ns) == \A other \in Namespaces \ {ns} : counters[other] = (CASE other = "users" -> 2 [] other = "businesses" -> 1 [] OTHER -> 0)

\* the created entities of one kind are bounded, one kind of entity is followed
\* at a time, and the employee routes act on the hire
NextRoutes ==
    \/ \E s \in ShopPrincipals : AloneIn("products") /\ routeGetProducts(s)
    \/ \E s \in ShopPrincipals, body \in RouteProductBodies : counters["products"] < MaxJoined /\ AloneIn("products") /\ routePostProduct(s, body, TRUE)
    \/ \E s \in ShopPrincipals, body \in {[stock |-> 0]} : AloneIn("products") /\ routePutProduct(s, 1, body)
    \/ \E s \in ShopPrincipals, body \in RouteCustomerBodies : counters["customers"] < MaxJoined /\ AloneIn("customers") /\ routePostCustomer(s, body, TRUE)
    \/ \E s \in ShopPrincipals, body \in {[total |-> 10, status |-> "completed", businessId |-> 2, userId |-> 9]} : counters["transactions"] < MaxJoined /\ AloneIn("transactions") /\ routePostTransaction(1, s, body, <<>>, 3)
    \/ txAllocId(1)
    \/ txInsertHeader(1)
    \/ \E s \in ShopPrincipals : counters["users"] < 2 + MaxJoined /\ AloneIn("users") /\ routePostEmployee(1, s)
    \/ \E body \in RouteEmployeeBodies : empRespond(1, body, TRUE)
    \/ \E s \in ShopPrincipals, permissions \in {SchemaPermissions} : AloneIn("users") /\ routePutPermissions(s, 2, permissions)
    \/ \E s \in ShopPrincipals : AloneIn("users") /\ routePutStatus(1, s, 2)
    \/ toggleWrite(1)
    \/ \E s \in ShopPrincipals : AloneIn("users") /\ routeDeleteEmployee(s, 2)
    \/ \E s \in ShopPrincipals, body \in SettingsBodies : AloneIn("businesses") /\ routePutSettings(s, body)

SpecRoutes == InitRoutes /\ [][NextRoutes]_vars

----------------------------------------------------------------------------
(* Employee management on the shop: the storage methods called with any id,
   the owner's included, and for either business *)

\* the owner, the employee, and an id no user has
StaffIds == 1..3

NextStaff ==
    \/ \E id \in StaffIds, b \in Tenants, permissions \in {SchemaPermissions} : updateUserPermissions(id, b, permissions)
    \/ \E id \in StaffIds, b \in Tenants : deleteEmployee(id, b)
    \/ \E id \in StaffIds, b \in Tenants : toggleRead(1, id, b)
    \/ toggleWrite(1)

SpecStaff == InitRoutes /\ [][NextStaff]_vars

----------------------------------------------------------------------------
(* Reports: getDashboardStats.  Instants are whole numbers, a day is DayLength
   of them; an amount, stored and returned as a decimal string with two
   places, is the number of cents it denotes. *)

RECURSIVE SumField(_, _)
\* $sum over the documents of a group
SumField(docs, field) == IF docs = {} THEN 0 ELSE LET d == CHOOSE d \in docs : TRUE IN d[field] + SumField(docs \ {d}, field)

DayLength == 2

\* const today = new Date(); today.setHours(0, 0, 0, 0)
startOfToday(now) == now - (now % DayLength)

\* a $match that leaves the status out
matchTodayAnyStatus(businessId, today) == {t \in transactions : t.businessId = businessId /\ t.createdAt >= today}

\* $match { businessId, createdAt: { $gte: today }, status: 'completed' }
matchToday(businessId, today) == {t \in transactions : t.businessId = businessId /\ t.createdAt >= today /\ t.status = "completed"}

\* $group { _id: null, ... }: one document, and none when nothing matched
todayStats(businessId, today) == IF matchToday(businessId, today) = {} THEN <<>> ELSE <<[totalSales |-> SumField(matchToday(businessId, today), "total"), transactionCount |-> Cardinality(matchToday(businessId, today))]>>

\* (numer / denom).toFixed(2): the cent values nearest to the quotient; at an
\* exact half cent the binary value of the quotient decides, either may come out
toFixed(numer, denom) == {q \in {numer \div denom, (numer \div denom) + 1} : 2 * (q * denom - numer) <= denom /\ 2 * (numer - q * denom) <= denom}

\* todayStats[0]?.totalSales || 0
totalSalesOr0(stats) == IF stats = <<>> THEN 0 ELSE stats[1].totalSales

\* a fallback of one: todayStats[0]?.transactionCount || 1
transactionCountOr1(stats) == IF stats = <<>> THEN 1 ELSE stats[1].transactionCount

\* todayStats[0]?.transactionCount || 0
transactionCountOr0(stats) == IF stats = <<>> THEN 0 ELSE stats[1].transactionCount

\* the call at instant now; the answer is recorded with the day start it used
getDashboardStats(businessId, now) ==
    /\ \E todaySales \in toFixed(totalSalesOr0(todayStats(businessId, startOfToday(now))), 1), averageSale \in (IF transactionCountOr0(todayStats(businessId, startOfToday(now))) > 0 THEN toFixed(totalSalesOr0(todayStats(businessId, startOfToday(now))), transactionCountOr0(todayStats(businessId, startOfToday(now)))) ELSE {0}) :
          Returned("getDashboardStats", businessId, startOfToday(now), "ok", {[todaySales |-> todaySales, todayTransactions |-> transactionCountOr0(todayStats(businessId, startOfToday(now))), averageSale |-> averageSale, lowStockCount |-> Cardinality(getLowStockProducts(businessId)), todayGrowth |-> 0, transactionGrowth |-> 0, averageGrowth |-> 0]})
    /\ UNCHANGED <<store, sessions, procs, issued, createdUnder>>

\* the sales on the books when the report is asked for
MaxSales == 3

\* a sale of one of two shops, completed or not, of yesterday or today
SaleInputs == [businessId : Tenants, userId : {1}, total : {5, 10}, status : {"completed", "pending"}, createdAt : {1, 2}]

\* the instants a report is asked at: late today, and at the start of the day after
Clock == {3, 4}

InitStats ==
    /\ \E n \in 0..MaxSales : \E sales \in [1..n -> SaleInputs] :
          /\ transactions = {Merge(sales[id], [id |-> id]) : id \in 1..n}
          /\ counters = [ns \in Namespaces |-> IF ns = "transactions" THEN n ELSE 0]
          /\ issued = [ns \in Namespaces |-> IF ns = "transactions" THEN [id \in 1..n |-> id] ELSE <<>>]
          /\ createdUnder = {<<"transactions", id, sales[id].businessId>> : id \in 1..n}
    /\ businesses = {} /\ users = {} /\ categories = {} /\ products = {} /\ customers = {} /\ transactionItems = {}
    /\ sessions = {}
    /\ alloc = [p \in Callers |-> IdleAlloc]
    /\ tx = [h \in Handlers |-> IdleTx]
    /\ emp = [h \in Handlers |-> IdleEmp]
    /\ tog = [h \in Handlers |-> IdleToggle]
    /\ auth = [h \in Handlers |-> IdleAuth]
    /\ conn = IdleConn
    /\ last = NoCall

NextStats == \E businessId \in Tenants, now \in Clock : getDashboardStats(businessId, now)

SpecStats == InitStats /\ [][NextStats]_vars

----------------------------------------------------------------------------
(* Reports: the pipeline of getTopProducts on transactionItems *)

\* the second $lookup and $unwind: a row per item and product of its productId;
\* an item whose product is not there gives no row
unwound(businessId) == UNION {{[item |-> i, product |-> p] : p \in {q \in products : q.id = i.productId}} : i \in soldItems(businessId)}

\* the rows of one $group key
rowsOf(businessId, productId) == {r.item : r \in {u \in unwound(businessId) : u.item.productId = productId}}

\* a $group that counts the lines instead of adding the quantities
groupedByLines(businessId) == {[product |-> p, soldCount |-> Cardinality(rowsOf(businessId, p.id)), revenue |-> SumField(rowsOf(businessId, p.id), "total")] : p \in {r.product : r \in unwound(businessId)}}

\* $group { _id: '$productId', product: { $first }, soldCount: { $sum: '$quantity' }, revenue: { $sum: { $toDouble: '$total' } } }
grouped(businessId) == {[product |-> p, soldCount |-> SumField(rowsOf(businessId, p.id), "quantity"), revenue |-> SumField(rowsOf(businessId, p.id), "total")] : p \in {r.product : r \in unwound(businessId)}}

\* $sort { soldCount: -1 }: the orders of the groups in which no count rises;
\* the stage has no other key, and groups of equal count come in any order
sorted(groups) == {order \in [1..Cardinality(groups) -> groups] : (\A j, k \in 1..Cardinality(groups) : j # k => order[j] # order[k]) /\ (\A j, k \in 1..Cardinality(groups) : j < k => order[j].soldCount >= order[k].soldCount)}

\* $limit
limited(order, limit) == SubSeq(order, 1, IF Len(order) < limit THEN Len(order) ELSE limit)

\* $project: the product's fields beside soldCount and the revenue as a string
projected(order) == [j \in 1..Len(order) |-> Merge(order[j].product, [soldCount |-> order[j].soldCount, revenue |-> order[j].revenue])]

\* the arrays the aggregation may return
topProducts(businessId, limit) == {projected(limited(order, limit)) : order \in sorted(grouped(businessId))}

\* the call; the answer is recorded with the limit it was given
getTopProducts(businessId, limit) ==
    /\ \E result \in topProducts(businessId, limit) : Returned("getTopProducts", businessId, limit, "ok", {result})
    /\ UNCHANGED <<store, sessions, procs, issued, createdUnder>>

\* the sale lines on the books when the report is asked for
MaxLines == 2

\* two products of the first shop; a line may also name a product that is not there
SoldProducts == {[id |-> 1, businessId |-> 1, name |-> "tea", stock |-> 3, lowStockThreshold |-> 5, isActive |-> TRUE], [id |-> 2, businessId |-> 1, name |-> "mug", stock |-> 3, lowStockThreshold |-> 5, isActive |-> TRUE]}

\* a completed and a pending sale of the first shop, a completed one of the second
SoldHeaders == {[id |-> 1, businessId |-> 1, userId |-> 1, total |-> 10, status |-> "completed", createdAt |-> 2], [id |-> 2, businessId |-> 1, userId |-> 1, total |-> 10, status |-> "pending", createdAt |-> 2], [id |-> 3, businessId |-> 2, userId |-> 2, total |-> 10, status |-> "completed", createdAt |-> 2]}

LineInputs == [transactionId : 1..3, productId : 1..3, quantity : {1, 2}, total : {5}]

\* the limits asked for
Limits == 1..2

InitTop ==
    /\ \E n \in 0..MaxLines : \E lines \in [1..n -> LineInputs] :
          /\ transactionItems = {Merge(lines[id], [id |-> id]) : id \in 1..n}
          /\ counters = [ns \in Namespaces |-> CASE ns = "transactionItems" -> n [] ns = "transactions" -> 3 [] ns = "products" -> 2 [] OTHER -> 0]
          /\ issued = [ns \in Namespaces |-> CASE ns = "transactionItems" -> [id \in 1..n |-> id] [] ns = "transactions" -> <<1, 2, 3>> [] ns = "products" -> <<1, 2>> [] OTHER -> <<>>]
    /\ transactions = SoldHeaders
    /\ products = SoldProducts
    /\ createdUnder = {<<"transactions", t.id, t.businessId>> : t \in SoldHeaders} \cup {<<"products", q.id, q.businessId>> : q \in SoldProducts}
    /\ businesses = {} /\ users = {} /\ categories = {} /\ customers = {}
    /\ sessions = {}
    /\ alloc = [p \in Callers |-> IdleAlloc]
    /\ tx = [h \in Handlers |-> IdleTx]
    /\ emp = [h \in Handlers |-> IdleEmp]
    /\ tog = [h \in Handlers |-> IdleToggle]
    /\ auth = [h \in Handlers |-> IdleAuth]
    /\ conn = IdleConn
    /\ last = NoCall

NextTop == \E businessId \in Tenants, limit \in Limits : getTopProducts(businessId, limit)

SpecTop == InitTop /\ [][NextTop]_vars

----------------------------------------------------------------------------
(* Reports: the low-stock list *)

\* GET /api/dashboard/low-stock, the storage call: the list is the answer
listLowStock(businessId) ==
    /\ Returned("getLowStockProducts", businessId, None, "ok", getLowStockProducts(businessId))
    /\ UNCHANGED <<store, sessions, procs, issued, createdUnder>>

\* the products on the shelves when the list is asked for
MaxStock == 2

\* a product of one of two shops, at or one above either threshold, on sale or withdrawn
StockInputs == [businessId : Tenants, name : {"item"}, stock : {5, 6}, lowStockThreshold : {5, 6}, isActive : BOOLEAN]

InitStock ==
    /\ \E n \in 0..MaxStock : \E shelf \in [1..n -> StockInputs] :
          /\ products = {Merge(shelf[id], [id |-> id]) : id \in 1..n}
          /\ counters = [ns \in Namespaces |-> IF ns = "products" THEN n ELSE 0]
          /\ issued = [ns \in Namespaces |-> IF ns = "products" THEN [id \in 1..n |-> id] ELSE <<>>]
          /\ createdUnder = {<<"products", id, shelf[id].businessId>> : id \in 1..n}
    /\ businesses = {} /\ users = {} /\ categories = {} /\ customers = {} /\ transactions = {} /\ transactionItems = {}
    /\ sessions = {}
    /\ alloc = [p \in Callers |-> IdleAlloc]
    /\ tx = [h \in Handlers |-> IdleTx]
    /\ emp = [h \in Handlers |-> IdleEmp]
    /\ tog = [h \in Handlers |-> IdleToggle]
    /\ auth = [h \in Handlers |-> IdleAuth]
    /\ conn = IdleConn
    /\ last = NoCall

NextStock == \E businessId \in Tenants : listLowStock(businessId)

SpecStock == InitStock /\ [][NextStock]_vars

----------------------------------------------------------------------------
(* The three report reads side by side, on the books of the top-products run *)

NextReads ==
    \/ \E businessId \in Tenants, now \in Clock : getDashboardStats(businessId, now)
    \/ \E businessId \in Tenants, limit \in Limits : getTopProducts(businessId, limit)
    \/ \E businessId \in Tenants : listLowStock(businessId)

SpecReads == InitTop /\ [][NextReads]_vars

----------------------------------------------------------------------------
(* POST /api/transactions from two requests: each reads the clock for its number *)

\* the milliseconds the requests may read: the same one, or the next
Milliseconds == {3, 4}

NextNumbers ==
    \/ \E h \in Handlers, s \in ShopPrincipals, body \in {[total |-> 10, status |-> "completed"]}, now \in Milliseconds : routePostTransaction(h, s, body, <<>>, now)
    \/ \E h \in Handlers : txAllocId(h)
    \/ \E h \in Handlers : txInsertHeader(h)

SpecNumbers == InitRoutes /\ [][NextNumbers]_vars

----------------------------------------------------------------------------
(* POST /api/register, with the createUser that may fail *)

RegisterBusinesses == {[name |-> n] : n \in {"shop", "cafe", "bar"}}

\* users as the body may send them: with no role, or asking for another one
RegisterUsers == {[username |-> n, email |-> "o@x", password |-> PlainPassword, isActive |-> TRUE] : n \in {"owner", "boss"}} \cup {[username |-> n, email |-> "o@x", password |-> PlainPassword, isActive |-> TRUE, role |-> "employee", businessId |-> 7] : n \in {"owner", "boss"}}

NextRegister ==
    \/ \E business \in RegisterBusinesses, user \in RegisterUsers, ok \in BOOLEAN : counters["businesses"] < MaxEntities /\ Register(business, user, ok)
    \/ \E s \in sessions : logout(s)

SpecRegister == Init /\ [][NextRegister]_vars

----------------------------------------------------------------------------
(* Accounts and login: createUser stores what it is given, so two accounts may
   carry the same username or email, with the same password or another *)

AccountInputs == {[businessId |-> b, username |-> "u", email |-> "u@x", password |-> pw, role |-> "employee", isActive |-> TRUE] : b \in Tenants, pw \in {PlainPassword, WrongPassword}}

NextAccounts ==
    \/ \E user \in AccountInputs : counters["users"] < MaxEntities /\ createUser(user, TRUE) /\ UNCHANGED <<sessions, procs>>
    \/ \E username \in {"u", "u@x"}, password \in {PlainPassword, WrongPassword} : loginFind(1, username, password)
    \/ loginFinish(1)

SpecAccounts == Init /\ [][NextAccounts]_vars

----------------------------------------------------------------------------
(* toggleEmployeeStatus called by two requests at once: each call reads the
   user, then writes the negation of what it read *)

NextToggle ==
    \/ \E h \in Handlers, id \in StaffIds, b \in Tenants : toggleRead(h, id, b)
    \/ \E h \in Handlers : toggleWrite(h)

SpecToggle == InitRoutes /\ [][NextToggle]_vars

----------------------------------------------------------------------------
(* mongodb.ts: connectToMongoDB and getDb.  A client is the number of its
   creation; a handle is the Db object a call obtained from a client; db and
   a call's return value hold a handle or nothing. *)

\* the clients one process may come to create
MaxClients == 2

\* client.db('znpos'), evaluated by call p on the module's client
dbOf(client, p) == [client |-> client, by |-> p]

\* connectToMongoDB up to its await: if (db) return db; client = new MongoClient(uri)
connectCall(p) ==
    /\ conn.call[p].pc = "idle"
    /\ IF conn.db # {}
       THEN conn' = [conn EXCEPT !.call[p] = [pc |-> "done", ret |-> conn.db]]
       ELSE conn.made < MaxClients /\ conn' = [conn EXCEPT !.client = conn.made + 1, !.made = conn.made + 1, !.call[p] = [pc |-> "connecting", ret |-> {}]]
    /\ UNCHANGED <<store, sessions, alloc, tx, emp, tog, auth, hist>>

\* await client.connect() resolved: db = client.db('znpos'); return db
connectResolve(p) ==
    /\ conn.call[p].pc = "connecting"
    /\ conn' = [conn EXCEPT !.db = {dbOf(conn.client, p)}, !.call[p] = [pc |-> "done", ret |-> {dbOf(conn.client, p)}]]
    /\ UNCHANGED <<store, sessions, alloc, tx, emp, tog, auth, hist>>

\* await client.connect() rejected: the catch logs and rethrows
connectReject(p) ==
    /\ conn.call[p].pc = "connecting"
    /\ conn' = [conn EXCEPT !.failed = conn.failed + 1, !.call[p] = [pc |-> "failed", ret |-> {}]]
    /\ UNCHANGED <<store, sessions, alloc, tx, emp, tog, auth, hist>>

\* the caller has its answer and may call again
connectReturn(p) ==
    /\ conn.call[p].pc \in {"done", "failed"}
    /\ conn' = [conn EXCEPT !.call[p] = [pc |-> "idle", ret |-> {}]]
    /\ UNCHANGED <<store, sessions, alloc, tx, emp, tog, auth, hist>>

\* getDb: if (!db) throw; return db
getDb ==
    /\ Returned("getDb", None, None, IF conn.db = {} THEN "Database not initialized. Call connectToMongoDB first." ELSE "ok", conn.db)
    /\ UNCHANGED <<store, sessions, procs, issued, createdUnder>>

NextConnect ==
    \/ \E p \in Callers : connectCall(p)
    \/ \E p \in Callers : connectResolve(p)
    \/ \E p \in Callers : connectReject(p)
    \/ \E p \in Callers : connectReturn(p)
    \/ getDb

SpecConnect == Init /\ [][NextConnect]_vars

----------------------------------------------------------------------------
(* Claims *)

\* C1: for every namespace, the ids returned by completed getNextId calls, in
\* any interleaving of the callers, are pairwise distinct.
C1_DistinctIds == \A ns \in Namespaces : \A i, j \in 1..Len(issued[ns]) : i # j => issued[ns][i] # issued[ns][j]

\* C1 witness: two different callers have each been handed an id of the same namespace
C1_Witness == \E p, q \in Callers : p # q /\ alloc[p].pc = "done" /\ alloc[q].pc = "done" /\ alloc[p].ns = alloc[q].ns /\ Len(issued[alloc[p].ns]) >= 3

\* every id a call may name
AnyId == 1..(MaxEntities + 1)

\* C2 (as stated): every entity a read under tenant T returns has businessId = T
\* and was not created under another tenant.
C2_ReadsReturnOwnEntities == \A T \in Tenants : \A other \in Tenants \ {T} : (\A p \in getProducts(T) \cup getLowStockProducts(T) \cup UNION {getProduct(id, T) : id \in AnyId} : p.businessId = T /\ <<"products", p.id, other>> \notin createdUnder) /\ (\A c \in getCustomers(T) \cup UNION {getCustomer(id, T) : id \in AnyId} : c.businessId = T /\ <<"customers", c.id, other>> \notin createdUnder) /\ (\A u \in getEmployees(T) : u.businessId = T /\ <<"users", u.id, other>> \notin createdUnder) /\ (\A c \in getCategories(T) : c.businessId = T /\ <<"categories", c.id, other>> \notin createdUnder)

\* the storage methods that take (id, businessId) and write
ScopedWrites == {"updateProduct", "updateCustomer", "updateUserPermissions", "toggleEmployeeStatus", "deleteEmployee"}

\* a step that completes a call: every call that returns records itself in last
Completes == <<store, last>>' # <<store, last>>

\* C4: a write called with tenant T leaves every stored product, customer and
\* user of any other tenant in place and unchanged, whatever id it names.
C4_WritesKeepOtherTenants == [][(Completes /\ last'.op \in ScopedWrites) => (\A p \in products : p.businessId # last'.bid => p \in products') /\ (\A c \in customers : c.businessId # last'.bid => c \in customers') /\ (\A u \in users : u.businessId # last'.bid => u \in users')]_vars

\* C4 witness: a write of one tenant matched its own user while a user of
\* another tenant, with the neighbouring id, is stored
C4_Witness == last.op \in {"updateUserPermissions", "toggleEmployeeStatus", "deleteEmployee"} /\ last.res \in {"ok", "true"} /\ \E u \in users : u.businessId # last.bid /\ u.id # last.id

\* what a scoped call answers when nothing matches: the thrown message, or false
NotFoundOutcome(op) == CASE op = "updateProduct" -> "Product not found" [] op = "updateCustomer" -> "Customer not found" [] op = "deleteEmployee" -> "false" [] OTHER -> "User not found"

\* the collection a scoped call works on
CollectionOf(op) == CASE op = "updateProduct" -> products [] op = "updateCustomer" -> customers [] OTHER -> users

\* no document of the call's collection has both the id and the tenant named
NoSuch(op, id, T) == \A d \in CollectionOf(op) : ~(d.id = id /\ d.businessId = T)

\* a step in which a scoped call looks its document up and answers: every call
\* but the second step of toggleEmployeeStatus, whose lookup was its first step
LooksUp == Completes /\ last'.op \in ScopedWrites /\ (last'.op = "toggleEmployeeStatus" => tog' = tog)

\* C5: a call with (id, T) where no document has that id under T answers the
\* same whether the id exists under another tenant or nowhere: getProduct and
\* getCustomer find nothing; the writes answer their not-found outcome, return
\* no document and leave the store as it was.
C5_NotFoundAlike == [](\A T \in Tenants, id \in AnyId : (NoSuch("updateProduct", id, T) => getProduct(id, T) = {}) /\ (NoSuch("updateCustomer", id, T) => getCustomer(id, T) = {})) /\ [][(LooksUp /\ NoSuch(last'.op, last'.id, last'.bid)) => (last'.res = NotFoundOutcome(last'.op) /\ last'.val = {} /\ UNCHANGED store)]_vars

\* C5 witness: updateUserPermissions answered 'User not found' for an id that
\* is stored under another tenant
C5_Witness == last.op = "updateUserPermissions" /\ last.res = "User not found" /\ \E u \in users : u.id = last.id /\ u.businessId # last.bid

\* C6 (as stated): in every state each business has at most 10 users whose
\* role is not admin.
C6_AtMostTenEmployees == \A b \in Tenants : getEmployeeCount(b) <= MaxEmployees

\* C7: a request reads the number of employees its business has at that moment,
\* and a request that read 10 or more is answered with the capacity error while
\* the store, the 'users' counter included, stays as it was.
C7_AtCapacityRefused == [][\A h \in Handlers : ((emp[h].pc = "idle" /\ emp'[h].pc = "counted") => emp'[h].count = getEmployeeCount(emp'[h].bid)) /\ ((emp[h].pc = "counted" /\ emp[h].count >= MaxEmployees /\ emp'[h].pc = "idle") => (last' = [op |-> "POST /api/employees", bid |-> emp[h].bid, id |-> None, res |-> "Maximum of 10 employees allowed", val |-> {}] /\ users' = users /\ counters' = counters /\ \A b \in Tenants : getEmployeeCount(b)' = getEmployeeCount(b)))]_vars

\* C7 witness: a request was refused while its business holds exactly 10 employees
C7_Witness == last.op = "POST /api/employees" /\ last.res = "Maximum of 10 employees allowed" /\ getEmployeeCount(last.bid) = MaxEmployees

\* the item documents stored under a header id
itemsOf(id) == {i \in transactionItems : i.transactionId = id}

\* C8: once a call with n items has returned successfully, one header with the
\* call's id is stored, that id was not a header's id when the call was made,
\* the items stored under it are exactly the n documents built from the items
\* passed, each with its own id that no item had when the call was made and with
\* transactionId equal to the header's id whatever the caller supplied; and at
\* every moment each stored item's header is stored (header before items).
C8_HeaderThenItems == (\A h \in Handlers : tx[h].pc = "done" => (Cardinality({t \in transactions : t.id = tx[h].id}) = 1 /\ newTransaction(tx[h].transaction, tx[h].id) \in transactions /\ tx[h].id \notin tx[h].hadTransactions /\ Len(tx[h].itemIds) = Len(tx[h].items) /\ itemsOf(tx[h].id) = {Merge(tx[h].items[j], [id |-> tx[h].itemIds[j], transactionId |-> tx[h].id]) : j \in 1..Len(tx[h].items)} /\ Cardinality({i.id : i \in itemsOf(tx[h].id)}) = Len(tx[h].items) /\ \A i \in itemsOf(tx[h].id) : i.id \notin tx[h].hadItems)) /\ (\A i \in transactionItems : \E t \in transactions : t.id = i.transactionId)

\* C8 witness: a call passing two items, one of them carrying a transactionId of
\* the caller's, has returned while the other call had already stored documents
C8_Witness == \E h \in Handlers : tx[h].pc = "done" /\ Len(tx[h].items) = 2 /\ (\E j \in 1..2 : "transactionId" \in DOMAIN tx[h].items[j]) /\ tx[h].hadTransactions # {} /\ tx[h].hadItems # {}

\* C9 (as stated): when no call is in progress, every stored header has as many
\* items as its call passed, and at least one.
C9_CompleteLedger == (\A h \in Handlers : tx[h].pc \in {"idle", "done", "failed"}) => (\A t \in transactions : itemsOf(t.id) # {} /\ \A h \in Handlers : tx[h].id = t.id => Cardinality(itemsOf(t.id)) = Len(tx[h].items))

\* C10: when the insert of the k-th item has failed, the caller got the error,
\* the header and the k-1 items inserted before are stored, nothing else is
\* stored under the header, and the counters still stand at or beyond every id
\* the call took, the failed item's included.
C10_NoRollback == \A h \in Handlers : (tx[h].pc = "failed" /\ tx[h].at = "insertItem") => (newTransaction(tx[h].transaction, tx[h].id) \in transactions /\ itemsOf(tx[h].id) = {newItem(tx[h].items[j], tx[h].itemIds[j], tx[h].id) : j \in 1..(Len(tx[h].itemIds) - 1)} /\ Cardinality(itemsOf(tx[h].id)) = Len(tx[h].itemIds) - 1 /\ counters["transactions"] >= tx[h].id /\ (\A j \in 1..Len(tx[h].itemIds) : counters["transactionItems"] >= tx[h].itemIds[j]) /\ (\A other \in Handlers \ {h} : tx[other].id # tx[h].id /\ \A j \in 1..Len(tx[h].itemIds), m \in 1..Len(tx[other].itemIds) : tx[other].itemIds[m] # tx[h].itemIds[j]))

\* C10 witness: the insert of a call's second item failed after its first went in
C10_Witness == \E h \in Handlers : tx[h].pc = "failed" /\ tx[h].at = "insertItem" /\ Len(tx[h].itemIds) = 2 /\ last.op = "createTransaction" /\ last.res = "error" /\ last.id = tx[h].id

\* C3 (as stated): the customer and the user joined into each row of
\* getTransactions(T), and every product getTopProducts(T) builds its rows
\* from, belong to business T.
C3_JoinsStayInTenant == \A T \in Tenants : (\A row \in getTransactions(T) : (\A c \in row.customer : c.businessId = T) /\ (\A t \in transactions : (t.id = row.id) => \A u \in lookupUser(t) : u.businessId = T)) /\ (\A p \in topProductsJoined(T) : p.businessId = T)

\* the ids a call took for its items
itemIdsOf(h) == {tx[h].itemIds[j] : j \in 1..Len(tx[h].itemIds)}

\* C11: when two calls, interleaved in any way, have both returned, their
\* headers have different ids, all the item ids they took are different from
\* one another, within a call and across the calls, and every item stored with
\* an id a call took sits under that call's header and is the document built
\* from the item that call passed.
C11_ConcurrentCallsIndependent == \A h1, h2 \in Handlers : (h1 # h2 /\ tx[h1].pc = "done" /\ tx[h2].pc = "done") => (tx[h1].id # tx[h2].id /\ itemIdsOf(h1) \cap itemIdsOf(h2) = {} /\ Cardinality(itemIdsOf(h1)) = Len(tx[h1].items) /\ (\A i \in transactionItems : i.id \in itemIdsOf(h1) => i.transactionId = tx[h1].id) /\ (\A j \in 1..Len(tx[h1].items) : newItem(tx[h1].items[j], tx[h1].itemIds[j], tx[h1].id) \in transactionItems) /\ Cardinality(itemsOf(tx[h1].id)) = Len(tx[h1].items))

\* C11 witness: two calls of two items each have both returned, each made
\* before the other had stored anything, and their item ids alternate
C11_Witness == tx[1].pc = "done" /\ tx[2].pc = "done" /\ Len(tx[1].items) = 2 /\ Len(tx[2].items) = 2 /\ tx[1].hadTransactions = {} /\ tx[2].hadTransactions = {} /\ tx[1].itemIds[1] < tx[2].itemIds[1] /\ tx[2].itemIds[1] < tx[1].itemIds[2]

\* C12: in every step, every stored transaction and every stored transaction
\* item is still stored, field for field, after the step.
C12_LedgerImmutable == [][(\A t \in transactions : t \in transactions') /\ (\A i \in transactionItems : i \in transactionItems')]_vars

\* C12 witness: with a sale and its item stored, the employee who rang it up was deleted
C12_Witness == last.op = "deleteEmployee" /\ last.res = "true" /\ transactionItems # {} /\ \E t \in transactions : t.userId = last.id

\* C13: a login looks up only a stored user that is active and whose username
\* or email is the trimmed identifier, and it succeeds only if the stored
\* password of the user it looked up is a hash of the password typed or is the
\* password typed itself; the user returned is the one looked up.  A user whose
\* isActive is false is never the one a lookup finds.
C13_AuthenticateOnlyActiveMatching == [][\A h \in Handlers : ((auth[h].pc = "idle" /\ auth'[h].pc = "found") => \A u \in auth'[h].found : u \in users /\ u.isActive = TRUE /\ (u.username = trim(auth'[h].username) \/ u.email = trim(auth'[h].username))) /\ ((auth[h].pc = "found" /\ auth'[h].pc = "idle" /\ last'.res = "ok") => \A u \in auth[h].found : (u.password = [text |-> auth[h].password.text, hashed |-> auth[h].password.hashed + 1] \/ u.password = auth[h].password) /\ u.isActive = TRUE /\ \A r \in last'.val : r.id = u.id /\ r.isActive = TRUE)]_vars

\* C13 witness: a login succeeded while another account, deactivated, is stored
C13_Witness == last.op = "login" /\ last.res = "ok" /\ \E u \in users : u.isActive = FALSE /\ u.id # last.id

\* C14: a login that looked up a user whose stored password is the plaintext p
\* typed succeeds, and when it has returned the stored password of that user is
\* a hash of p (the returned user carries the hash too); a login that looked up
\* a user whose stored password is already a hash of the p typed succeeds and
\* leaves the users collection as it was.
C14_LegacyMigratesOnce == [][\A h \in Handlers : (auth[h].pc = "found" /\ auth'[h].pc = "idle") => \A u \in auth[h].found : ((u.password.hashed = 0 /\ u.password = auth[h].password) => (last'.res = "ok" /\ (\A r \in last'.val : r.password = [text |-> u.password.text, hashed |-> 1]) /\ \A d \in users' : d.id = u.id => d.password = [text |-> u.password.text, hashed |-> 1])) /\ ((auth[h].password.hashed = 0 /\ u.password = [text |-> auth[h].password.text, hashed |-> 1]) => (last'.res = "ok" /\ users' = users))]_vars

\* C14 witness: after a login that migrated the legacy record, a second login
\* with the same password has looked the record up and found the hash
C14_Witness == last.op = "login" /\ last.res = "ok" /\ last.id = 1 /\ auth[1].pc = "found" /\ auth[1].password = PlainPassword /\ \E u \in auth[1].found : u.id = 1 /\ u.password = [text |-> "secret", hashed |-> 1] /\ u \in users

\* what the client of a failed login gets: 401 'Invalid credentials', nothing else
FailedLogin == [op |-> "login", bid |-> None, id |-> None, res |-> "Invalid credentials", val |-> {}]

\* C15: an identifier that no stored user has, or that only inactive users
\* have, is looked up in vain; a login whose password neither hashes to nor
\* equals the stored one fails; and every login that ends without success,
\* whichever of the three it was, answers the same 401 'Invalid credentials'
\* and leaves the store and the sessions as they were.
C15_FailedLoginsAlike == [](\A username \in Identifiers : (\A u \in users : (u.username # trim(username) /\ u.email # trim(username)) \/ u.isActive = FALSE) => matchLogin(username) = {}) /\ [][((last'.op = "login" /\ last' # last /\ last'.res # "ok") => (last' = FailedLogin /\ UNCHANGED <<store, sessions>>)) /\ (\A h \in Handlers : (auth[h].pc = "found" /\ auth'[h].pc = "idle") => \A u \in auth[h].found : (u.password # auth[h].password /\ u.password # [text |-> auth[h].password.text, hashed |-> auth[h].password.hashed + 1]) => (last' = FailedLogin /\ UNCHANGED <<store, sessions>>))]_vars

\* C15 witness: a login has just failed in a state where an inactive user, an
\* active user and an unused identifier all exist
C15_Witness == last = FailedLogin /\ (\E u \in users : u.isActive = FALSE) /\ (\E u \in users : u.isActive = TRUE) /\ (\A u \in users : u.username # "nobody" /\ u.email # "nobody")

\* C16: every user document that createUser inserted stores a password that
\* is a hash (bcrypt applied at least once) and is not the string supplied at
\* creation, at its insert and in every later state, logins included.
C16_CreatedUsersStoreHash == (\A u \in users : u.id # LegacyUser.id => (u.password.hashed >= 1 /\ \A user \in UserInputs : u.password # user.password)) /\ (last.op = "createUser" /\ last.res = "ok" => \E u \in users : u.id = last.id /\ u.password.hashed >= 1 /\ u.password.text = PlainPassword.text)

\* C16 witness: createUser has just inserted a user
C16_Witness == last.op = "createUser" /\ last.res = "ok" /\ \E u \in users : u.id = last.id /\ u.id # LegacyUser.id /\ u.username = "u"

\* C17: the user that createUser, updateUserPermissions or toggleEmployeeStatus
\* returned has no password field, and no user that getEmployees returns for
\* any business has one.
C17_NoPasswordReturned == (last.op \in {"createUser", "updateUserPermissions", "toggleEmployeeStatus"} => \A r \in last.val : "password" \notin DOMAIN r) /\ (\A T \in Tenants : \A e \in getEmployees(T) : "password" \notin DOMAIN e)

\* C17 witness: toggleEmployeeStatus has returned a user, and getEmployees of
\* that business returns it too
C17_Witness == last.op = "toggleEmployeeStatus" /\ last.res = "ok" /\ last.val # {} /\ \E e \in getEmployees(last.bid) : e.id = last.id /\ \E u \in users : u.id = e.id /\ "password" \in DOMAIN u

\* C18 (as stated): with no permission flags sent by the requester, every stored
\* admin has all six flags true and every stored employee has pos true and the
\* other five false, whether created by registration or by POST /api/employees.
C18_DefaultPermissionsByRole == \A u \in users : (u.role = "admin" => u.permissions = AdminPermissions) /\ (u.role # "admin" => u.permissions = EmployeePermissions)

\* C19: requirePermission(capability) answers next exactly when the request has
\* a principal that is an admin or whose flag for the capability is there and
\* true; an admin passes whatever its flags, a principal that is no admin and
\* whose flag is false or missing gets 403, and a request without principal 401.
C19_PermissionGate == last.op = "requirePermission" => \A r \in last.val : (last.res = "next" <=> (r.principal \in sessions /\ (r.principal.role = "admin" \/ ("permissions" \in DOMAIN r.principal /\ r.permission \in DOMAIN r.principal.permissions /\ r.principal.permissions[r.permission])))) /\ ((r.principal \in sessions /\ r.principal.role = "admin") => last.res = "next") /\ ((r.principal \in sessions /\ r.principal.role # "admin" /\ ("permissions" \notin DOMAIN r.principal \/ r.permission \notin DOMAIN r.principal.permissions \/ ~r.principal.permissions[r.permission])) => last.res = "403 Access denied") /\ (r.principal \notin sessions => last.res = "401 Unauthorized")

\* C19 witness: an admin whose flags are all false passed the gate for settings
C19_Witness == last.op = "requirePermission" /\ last.res = "next" /\ \E r \in last.val : r.permission = "settings" /\ r.principal.role = "admin" /\ "permissions" \in DOMAIN r.principal /\ r.principal.permissions = SchemaPermissions

\* the step is a request answered by one of the three gates
GateStep == last' # last /\ last'.op \in {"requireAuth", "requirePermission", "requireAdmin"}

\* C20: a request whose principal has no live session is answered 401 by
\* requireAuth, requirePermission and requireAdmin alike, never 403; with a live
\* principal requireAdmin answers 403 exactly when the role is not admin; logout
\* ends the session, and a principal gets a session only by a successful login
\* or registration, so every gated request in between is answered 401.
C20_GatesWithoutPrincipal == [][(GateStep => \A r \in last'.val : (r.principal \notin sessions => last'.res = "401 Unauthorized") /\ (r.principal \in sessions => last'.res # "401 Unauthorized") /\ ((r.principal \in sessions /\ last'.op = "requireAdmin") => (last'.res = "403 Admin access required" <=> r.principal.role # "admin") /\ (last'.res = "next" <=> r.principal.role = "admin"))) /\ ((last' # last /\ last'.op = "logout") => \E s \in sessions : s.id = last'.id /\ s.businessId = last'.bid /\ s \notin sessions') /\ (\A s \in sessions' \ sessions : last'.op \in {"login", "register"} /\ last'.res = "ok" /\ last' # last) /\ (\A s \in sessions \ sessions' : last'.op = "logout")]_vars

\* C20 witness: the legacy user logged in (its password was migrated), its
\* session was destroyed, and its cookie was then refused 401 by requireAdmin
C20_Witness == last.op = "requireAdmin" /\ last.res = "401 Unauthorized" /\ sessionUser(LegacyUser) \notin sessions /\ (\E r \in last.val : r.principal = sessionUser(LegacyUser)) /\ \E u \in users : u.id = LegacyUser.id /\ u.password = Hash(PlainPassword)

\* the answers of a gate that did not call next()
Rejections == {"401 Unauthorized", "403 Access denied", "403 Admin access required"}

\* a live session passes requireAuth and requirePermission(permission)
Passes(permission) == \E s \in sessions : s.role = "admin" \/ s.permissions[permission]

\* a live session passes requireAdmin
PassesAdmin == \E s \in sessions : s.role = "admin"

\* C21: the gate comes before every repository, ledger and reporting call: a
\* request answered 401 or 403 leaves the store, the counters and every handler
\* as they were and returns no data, and whatever a route wrote or started was
\* let through by the gate of that route for a live session.
C21_GateBeforeStorage == [][((last' # last /\ last'.res \in Rejections) => (store' = store /\ procs' = procs /\ last'.val = {})) /\ ((products' # products \/ counters'["products"] # counters["products"] \/ (last' # last /\ last'.op = "getProducts")) => Passes("inventory")) /\ ((customers' # customers \/ counters'["customers"] # counters["customers"]) => Passes("customers")) /\ ((transactions' # transactions \/ counters'["transactions"] # counters["transactions"] \/ tx' # tx) => Passes("pos")) /\ ((users' # users \/ counters'["users"] # counters["users"] \/ emp' # emp \/ tog' # tog) => PassesAdmin) /\ (businesses' # businesses => Passes("settings"))]_vars

\* C21 witness: with only the employee logged in, POST /api/products was answered
\* 403 and no product id was handed out
C21_Witness == last.op = "POST /api/products" /\ last.res = "403 Access denied" /\ sessions = {sessionUser(ShopEmployee)} /\ counters["products"] = 0 /\ products = {}

\* the documents of coll' whose id coll did not hold
Created(coll, collNext) == {d \in collNext : \A e \in coll : e.id # d.id}

\* C22: what the gates and the repository calls use of the principal is the
\* copy made at login or registration: no request changes a session, a user
\* made by POST /api/employees is an employee of the business of a live admin
\* session, and a product, customer or sale made by its route is of the business
\* of a live session that passes the route's gate (the sale also of its user),
\* whatever the payload says.
C22_PayloadNeverTrusted == [][(sessions' = sessions) /\ (\A u \in Created(users, users') : u.role = "employee" /\ \E s \in sessions : s.role = "admin" /\ u.businessId = s.businessId) /\ (\A p \in Created(products, products') : \E s \in sessions : (s.role = "admin" \/ s.permissions["inventory"]) /\ p.businessId = s.businessId) /\ (\A c \in Created(customers, customers') : \E s \in sessions : (s.role = "admin" \/ s.permissions["customers"]) /\ c.businessId = s.businessId) /\ (\A t \in Created(transactions, transactions') : \E s \in sessions : (s.role = "admin" \/ s.permissions["pos"]) /\ t.businessId = s.businessId /\ t.userId = s.id)]_vars

\* C22 witness: the body of POST /api/employees said role admin and business 2,
\* the user created is an employee of business 1
C22_Witness == last.op = "createUser" /\ last.res = "ok" /\ (\E body \in RouteEmployeeBodies : body.role = "admin" /\ body.businessId = 2) /\ \E u \in users : u.id = last.id /\ u.id = 3 /\ u.role = "employee" /\ u.businessId = 1

\* C23: deleteEmployee never removes an admin: called with the id and business
\* of an admin it returns false and leaves users as they were; a call removes at
\* most one user, and only a user of the given id and business who is no admin.
C23_AdminNeverDeleted == [][(last' # last /\ last'.op = "deleteEmployee") => ((\A u \in users : u.role = "admin" => u \in users') /\ ((\E u \in users : u.id = last'.id /\ u.businessId = last'.bid /\ u.role = "admin") => (last'.res = "false" /\ users' = users)) /\ Cardinality(users \ users') <= 1 /\ users' \subseteq users /\ (\A u \in users \ users' : u.role # "admin" /\ u.businessId = last'.bid /\ u.id = last'.id) /\ (last'.res = "true" <=> users' # users))]_vars

\* C23 witness: deleteEmployee was called with the owner's id and business and
\* answered false, the owner being still there
C23_Witness == last.op = "deleteEmployee" /\ last.id = ShopOwner.id /\ last.bid = ShopOwner.businessId /\ last.res = "false" /\ \E u \in users : u.id = ShopOwner.id /\ u.role = "admin"

\* C24: updateUserPermissions, toggleEmployeeStatus and deleteEmployee called
\* with the id of an admin of the same business leave that admin's permissions,
\* isActive and existence as they were.
C24_AdminsUntouched == [][\A u \in users : u.role = "admin" => \E v \in users' : v.id = u.id /\ v.permissions = u.permissions /\ v.isActive = u.isActive]_vars

\* C25: in every namespace the ids come out in strictly increasing order, so
\* none is issued twice, also after the user holding one was deleted or after an
\* insert failed once its id was taken; no counter ever steps down.
C25_IdsNeverReused == [](\A ns \in Namespaces : \A i, j \in 1..Len(issued[ns]) : i < j => issued[ns][i] < issued[ns][j]) /\ [][\A ns \in Namespaces : counters'[ns] >= counters[ns]]_vars

\* C25 witness: user 1 was created and deleted, and the next user got id 2
C25_Witness == last.op = "createUser" /\ last.res = "ok" /\ last.id = 2 /\ issued["users"] = <<1, 2>> /\ (\E b \in Tenants : <<"users", 1, b>> \in createdUnder) /\ \A u \in users : u.id # 1

\* C26: a call of getNextId moves the seq of its namespace up by exactly one and
\* returns the new value, which is 1 when the namespace had no counter document,
\* and leaves the counter of every other namespace as it was.
C26_OneIdPerCall == [][\A p \in Callers, ns \in Namespaces : (alloc[p].pc = "pending" /\ alloc[p].ns = ns /\ alloc'[p].pc = "done") => (counters'[ns] = counters[ns] + 1 /\ alloc'[p].ret = counters'[ns] /\ (counters[ns] = 0 => alloc'[p].ret = 1) /\ (\A other \in Namespaces \ {ns} : counters'[other] = counters[other]) /\ Len(issued'[ns]) = Len(issued[ns]) + 1)]_vars

\* C26 witness: two calls on users returned 1 and 2 while products was used
\* once and customers never
C26_Witness == \E p, q \in Callers : alloc[p].pc = "done" /\ alloc[p].ns = "users" /\ alloc[p].ret = 1 /\ alloc[q].pc = "done" /\ alloc[q].ns = "users" /\ alloc[q].ret = 2 /\ counters["products"] = 1 /\ counters["customers"] = 0

\* C27: updateProduct, updateCustomer and updateBusiness merge: across a step a
\* field of a product or business either keeps its value or takes the value the
\* request named for it; a business field the body of PUT /api/settings/business
\* leaves out is as it was.
C27_PartialMerge == [][(\A p \in products, q \in products' : p.id = q.id => \A k \in DOMAIN p : q[k] = p[k] \/ (k = "stock" /\ q[k] = 0)) /\ (\A b \in businesses, c \in businesses' : b.id = c.id => \A k \in DOMAIN b : c[k] = b[k] \/ \E body \in SettingsBodies : k \in DOMAIN body /\ c[k] = body[k])]_vars

\* the completed sales of business T made at or after the instant today
CompletedSince(T, today) == {t \in transactions : t.businessId = T /\ t.status = "completed" /\ t.createdAt >= today}

\* C28: getDashboardStats(T) reports as todayTransactions the number of T's
\* completed sales made since the start of today, as todaySales the sum of
\* their totals and as averageSale their quotient to the cent; with no such sale
\* it reports 0.00, 0 and 0.00.
C28_DashboardStats == last.op = "getDashboardStats" => (last.res = "ok" /\ \A r \in last.val : (r.todayTransactions = Cardinality(CompletedSince(last.bid, last.id)) /\ r.todaySales = SumField(CompletedSince(last.bid, last.id), "total") /\ (CompletedSince(last.bid, last.id) = {} => (r.todaySales = 0 /\ r.todayTransactions = 0 /\ r.averageSale = 0)) /\ (CompletedSince(last.bid, last.id) # {} => (2 * (r.averageSale * r.todayTransactions - r.todaySales) <= r.todayTransactions /\ 2 * (r.todaySales - r.averageSale * r.todayTransactions) <= r.todayTransactions))))

\* C28 witness: three completed sales of today, 0.20 in all, gave the average
\* 0.07, the nearest cent to 0.0667
C28_Witness == last.op = "getDashboardStats" /\ Cardinality(CompletedSince(last.bid, last.id)) = 3 /\ \E r \in last.val : r.todayTransactions = 3 /\ r.todaySales = 20 /\ r.averageSale = 7

\* C28 witness of the empty day: sales exist, none of today, and the report is all zero
C28_WitnessZero == last.op = "getDashboardStats" /\ (\E t \in transactions : t.businessId = last.bid /\ t.status = "completed") /\ \E r \in last.val : r.todayTransactions = 0 /\ r.todaySales = 0 /\ r.averageSale = 0

\* the sale lines of product id under a completed sale of business T
SoldLines(T, id) == {i \in transactionItems : i.productId = id /\ \E t \in transactions : t.id = i.transactionId /\ t.businessId = T /\ t.status = "completed"}

\* C29: getTopProducts(T, limit) returns at most limit entries, one per product;
\* an entry's soldCount is the sum of quantity and its revenue the sum of total
\* over the lines of that product under T's completed sales; the counts do not
\* rise along the result, and no product left out sold more than one returned.
C29_TopProducts == last.op = "getTopProducts" => \A result \in last.val : (Len(result) <= last.id /\ (\A j, k \in 1..Len(result) : j # k => result[j].id # result[k].id) /\ (\A j \in 1..Len(result) : SoldLines(last.bid, result[j].id) # {} /\ result[j].soldCount = SumField(SoldLines(last.bid, result[j].id), "quantity") /\ result[j].revenue = SumField(SoldLines(last.bid, result[j].id), "total")) /\ (\A j, k \in 1..Len(result) : j < k => result[j].soldCount >= result[k].soldCount) /\ (\A p \in products : (\A j \in 1..Len(result) : result[j].id # p.id) => \A j \in 1..Len(result) : SumField(SoldLines(last.bid, p.id), "quantity") <= result[j].soldCount))

\* C29 witness: with limit 1 the product sold twice in one line is returned and the
\* one sold once is cut off
C29_Witness == last.op = "getTopProducts" /\ last.id = 1 /\ (\E result \in last.val : Len(result) = 1 /\ result[1].soldCount = 2) /\ \E p \in products : SumField(SoldLines(last.bid, p.id), "quantity") = 1

\* C30: getTopProducts is deterministic: products of equal soldCount come in
\* ascending product id, and a product cut off by the limit with the count of a
\* product returned has the larger id.
C30_TiesByProductId == last.op = "getTopProducts" => \A result \in last.val : ((\A j, k \in 1..Len(result) : (j < k /\ result[j].soldCount = result[k].soldCount) => result[j].id < result[k].id) /\ (\A p \in products : (SoldLines(last.bid, p.id) # {} /\ \A j \in 1..Len(result) : result[j].id # p.id) => \A j \in 1..Len(result) : SumField(SoldLines(last.bid, p.id), "quantity") = result[j].soldCount => result[j].id < p.id))

\* C31: getLowStockProducts(T) returns the products of T that are active and
\* whose own stock is at most their own threshold, and no other: stock 5 at
\* threshold 5 is in, stock 6 at threshold 5 is out, an inactive product is out.
C31_LowStock == last.op = "getLowStockProducts" => ((\A p \in last.val : p \in products /\ p.businessId = last.bid /\ p.isActive /\ p.stock <= p.lowStockThreshold) /\ (\A p \in products : (p.businessId = last.bid /\ p.isActive /\ p.stock <= p.lowStockThreshold) => p \in last.val) /\ (\A p \in products : (p.businessId = last.bid /\ p.isActive /\ p.stock = 5 /\ p.lowStockThreshold = 5) => p \in last.val) /\ (\A p \in products : (p.stock = 6 /\ p.lowStockThreshold = 5) => p \notin last.val) /\ (\A p \in products : ~p.isActive => p \notin last.val))

\* C31 witness: the list holds a product with stock 5 at threshold 5 while the
\* shop also has a product with stock 6 at threshold 5
C31_Witness == last.op = "getLowStockProducts" /\ (\E p \in last.val : p.stock = 5 /\ p.lowStockThreshold = 5) /\ \E p \in products : p.businessId = last.bid /\ p.isActive /\ p.stock = 6 /\ p.lowStockThreshold = 5

\* the calls that only report
ReportReads == {"getDashboardStats", "getTopProducts", "getLowStockProducts"}

\* C32: getDashboardStats, getTopProducts and getLowStockProducts only read:
\* a call leaves every collection and every counter as it was and answers
\* without error, with zeros, an empty array or an empty list when nothing matches.
C32_ReportsOnlyRead == [][(last' # last /\ last'.op \in ReportReads) => (store' = store /\ last'.res = "ok")]_vars /\ []((last.op = "getDashboardStats" /\ CompletedSince(last.bid, last.id) = {}) => \A r \in last.val : r.todaySales = 0 /\ r.todayTransactions = 0 /\ r.averageSale = 0) /\ []((last.op = "getTopProducts" /\ \A p \in products : SoldLines(last.bid, p.id) = {}) => last.val = {<<>>}) /\ []((last.op = "getLowStockProducts" /\ \A p \in products : ~(p.businessId = last.bid /\ p.isActive /\ p.stock <= p.lowStockThreshold)) => last.val = {})

\* C32 witness: the day after the sales the stats of the first shop are all zero
C32_Witness == last.op = "getDashboardStats" /\ last.bid = 1 /\ last.id = 4 /\ (\E t \in transactions : t.businessId = 1 /\ t.status = "completed") /\ \E r \in last.val : r.todaySales = 0 /\ r.todayTransactions = 0 /\ r.averageSale = 0

\* C33: two transactions of one business never carry the same transactionNumber,
\* also when their requests read the same clock value.
C33_NumbersUnique == \A t, u \in transactions : (t.id # u.id /\ t.businessId = u.businessId) => t.transactionNumber # u.transactionNumber

\* C34: registration stores the business and then the admin: when createUser
\* fails the business is there, no user names it, no session was set and the
\* request reports an error; when it succeeds the user is an admin of the new
\* business whatever role the payload carried, and is the session's principal.
C34_RegistrationTwoSteps == [][(last' # last /\ last'.op = "register") => ((\E b \in businesses' : b.id = last'.bid /\ b \notin businesses /\ businesses' = businesses \cup {b}) /\ (last'.res = "error" => (users' = users /\ sessions' = sessions /\ last'.val = {} /\ \A u \in users' : u.businessId # last'.bid)) /\ (last'.res # "error" => (last'.res = "ok" /\ \E u \in users' : u \notin users /\ users' = users \cup {u} /\ u.id = last'.id /\ u.role = "admin" /\ u.businessId = last'.bid /\ sessions' = sessions \cup {sessionUser(u)})))]_vars

\* C34 witness: a registration failed at createUser, its business is stored and
\* has no user, while an earlier registration had succeeded
C34_Witness == last.op = "register" /\ last.res = "error" /\ (\E b \in businesses : b.id = last.bid) /\ (\A u \in users : u.businessId # last.bid) /\ users # {}

\* C34 witness of the success: the body asked for role employee of business 7
C34_WitnessAdmin == last.op = "register" /\ last.res = "ok" /\ \E u \in users : u.id = last.id /\ u.role = "admin" /\ u.businessId = last.bid

\* C35: the connection is made once: while no connect has failed, at most one
\* client was created and the calls that returned hold the same handle; getDb
\* fails as long as no connect has completed and returns the handle afterwards.
C35_ConnectOnce == (conn.failed = 0 => (conn.made <= 1 /\ \A p, q \in Callers : (conn.call[p].pc = "done" /\ conn.call[q].pc = "done") => conn.call[p].ret = conn.call[q].ret)) /\ (last.op = "getDb" => ((last.res = "ok" <=> last.val # {}) /\ (conn.db = {} => last.res # "ok")))

\* C36: updateProduct and updateCustomer leave id and businessId as they were
\* at creation: every stored product and customer still carries the id it was
\* given and the business it was created under.
C36_IdentityKept == (\A p \in products : <<"products", p.id, p.businessId>> \in createdUnder) /\ (\A c \in customers : <<"customers", c.id, c.businessId>> \in createdUnder)

\* C37: a step of createTransaction writes the transactions and transactionItems
\* collections and their two counters only: products (stock included),
\* customers (loyaltyPoints and totalSpent included) and every other collection
\* and counter are as before the step.
C37_OnlyLedgerWritten == [][tx' # tx => (products' = products /\ customers' = customers /\ businesses' = businesses /\ users' = users /\ categories' = categories /\ \A ns \in Namespaces \ {"transactions", "transactionItems"} : counters'[ns] = counters[ns])]_vars

\* C37 witness: a sale to a stored customer with a line of a stored product has
\* returned; the product still has its stock of 3, the customer 0 points
C37_Witness == tx[1].pc = "done" /\ "customerId" \in DOMAIN tx[1].transaction /\ Len(tx[1].items) >= 1 /\ (\E c \in customers : c.id = tx[1].transaction.customerId /\ c.loyaltyPoints = 0) /\ (\E p \in products : p.id = tx[1].items[1].productId /\ p.stock = 3) /\ (\E i \in transactionItems : i.transactionId = tx[1].id)

\* C38: a revocation takes effect on the next request: whenever POST
\* /api/transactions, gated on pos, lets a request through, the stored user of
\* the requesting session exists, is active and is an admin or holds pos.
C38_RevocationEffective == [][(tx[1].pc = "idle" /\ tx'[1].pc = "allocTx") => \E u \in users : u.id = tx'[1].transaction.userId /\ u.isActive /\ (u.role = "admin" \/ u.permissions["pos"])]_vars

\* C39: every completed toggleEmployeeStatus flips the stored isActive of its
\* user, whatever other calls ran between its read and its write, and returns
\* the value that is stored right after its write.
C39_EachToggleFlips == [][\A h \in Handlers : (tog[h].pc = "found" /\ tog'[h].pc = "idle") => \A u \in users : (u.id = tog[h].id /\ u.businessId = tog[h].bid) => \E v \in users' : v.id = u.id /\ v.isActive = ~u.isActive /\ \A r \in last'.val : r.isActive = v.isActive]_vars

\* C40: an active user created with password p logs in with p under their
\* username and under their email, whatever other users exist: a login that
\* completes with the identifier and the password of a stored active user
\* succeeds and returns that user.
C40_OwnCredentialsLogIn == [][(auth[1].pc = "found" /\ auth'[1].pc = "idle") => \A u \in users : (u.isActive /\ (u.username = auth[1].username \/ u.email = auth[1].username) /\ u.password = Hash(auth[1].password)) => (last'.op = "login" /\ last'.res = "ok" /\ last'.id = u.id)]_vars

====
